---- MODULE Spec2Model ----
(* Field-Measure: the two polygon editors of the repository.                *)
(*   "points" : the points editor of src/unnamed/part_001 (vertices are     *)
(*              appended by map clicks and GPS watch fixes)                  *)
(*   "layer"  : the layer editor of src/components/Map.tsx (whole polygons  *)
(*              arrive as leaflet-draw draw-created events)                  *)
(* One of the two components is mounted; `editor` says which.               *)
(* An action is one event handler together with the React re-render that    *)
(* follows it; what a callback keeps from the render it was created in      *)
(* (its closure) is stored explicitly where the callback outlives a render. *)
EXTENDS Integers, Sequences, FiniteSets, TLC

VARIABLES
  editor,        \* which component is mounted
  onAreaUpdate,  \* whether the onAreaUpdate prop was supplied
  isDrawing,     \* useState isDrawing
  selectedUnit,  \* useState selectedUnit
  unitChanges,   \* number of unit selections made so far
  areaSize,      \* useState areaSize, the string shown: digits and decimals
  notified,      \* the calls of the onAreaUpdate prop made by the last handler
  points,        \* useState points (points editor)
  undoStack,     \* useState undoStack
  redoStack,     \* useState redoStack
  drawnItems,    \* drawnItemsRef.current: the layers, in Leaflet stamp order
  nextStamp,     \* Leaflet's stamp counter for new layers
  delivered,     \* number of coordinates delivered so far by clicks and fixes
  gpsStatus,     \* useState gpsStatus
  locationError, \* useState locationError (layer editor), the text shown
  watchId,       \* useState watchId (points editor), 0 for null
  gpsCalls,      \* number of geolocation requests issued so far
  pendingPos,    \* getCurrentPosition requests not yet answered, with closure
  watches,       \* position watches registered with the browser, with closure
  drawHandler,   \* useState drawHandler: "null" or the polygon draw handler
  handlerEnabled,\* layer editor: the leaflet-draw polygon handler is enabled
  threw,         \* the last handler ended with an uncaught error
  trail,         \* history: progress along push, undo, redo
  prePush,       \* history: drawnItems just before the push the trail is on
  postPush,      \* history: drawnItems just after that push
  postPoints,    \* history: points just after the last append by a click
                 \* since the last Clear All
  clearedAt,     \* history: the value of delivered at the last Clear All
  isAnalyzing,   \* useState isAnalyzing
  showElevationAnalysis, \* useState showElevationAnalysis
  elevationData, \* useState elevationData: the published statistics
  inFlight,      \* analyzeElevation calls waiting for the elevation response
  analysisCalls, \* number of analyzeElevation calls so far
  requests,      \* number of elevation requests issued so far
  lastAlert,     \* what the last step of an analysis alerted, "none" if nothing
  hung,          \* the page is inside a loop that never ends
  calc           \* a pure function applied to chosen arguments, with its result

vars == <<editor, onAreaUpdate, isDrawing, selectedUnit, unitChanges,
          areaSize, notified, points,
          undoStack, redoStack, drawnItems, nextStamp, delivered, gpsStatus,
          locationError, watchId,
          gpsCalls, pendingPos, watches, drawHandler, handlerEnabled, threw,
          trail, prePush, postPush, postPoints, clearedAt, isAnalyzing,
          showElevationAnalysis, elevationData, inFlight, analysisCalls,
          requests, lastAlert, hung, calc>>

----------------------------------------------------------------------------
(* Bounds of the model.                                                     *)
MaxDelivered == 4   \* coordinates delivered in one run (clicks and fixes)
MaxStamp == 3       \* layers created in one run
MaxGpsCalls == 1    \* geolocation requests issued in one run
MaxUnitChanges == 1 \* unit selections made in one run
MaxAnalyses == 2    \* analyzeElevation calls made in one run
MaxArea == 1500     \* largest area, in square meters, given to a conversion
MaxLat == 2         \* largest latitude of a ring given to geodesicArea
MaxRing == 4        \* longest ring given to geodesicArea
MaxPoints == 1001   \* longest list of points given to getElevationData
MaxSamples == 3     \* most grid points of an analysis whose statistics are taken
MaxElevation == 2   \* largest elevation of a sample
MaxSpan == 8        \* largest max - min given to getElevationColor

(* Inputs.  Coordinates are lattice units.  No handler compares two         *)
(* coordinates, so every delivered click or fix carries a new one: the n-th *)
(* delivered coordinate is Vertex(n), walking up a strip two columns wide.  *)
LatLng(a, b) == [lat |-> a, lng |-> b]
Vertex(n) == LatLng((n - 1) \div 2, IF (n - 1) % 4 \in {1, 2} THEN 1 ELSE 0)
NewLatLngs == {Vertex(delivered + 1)}

(* The polygon the n-th layer is drawn as: a triangle or a square.          *)
DrawnRings ==
  {IF nextStamp % 2 = 1
   THEN <<LatLng(0, 0), LatLng(0, 1), LatLng(1, 0)>>
   ELSE <<LatLng(0, 0), LatLng(0, 1), LatLng(1, 1), LatLng(1, 0)>>}

Units == {"ha", "sqm", "acre", "sqft"}

----------------------------------------------------------------------------
(* A table whose acre row has toSqMeters rounded to 4047.                   *)
UNIT_CONVERSIONS_acre4047 ==
  [ha   |-> [num |-> 1, den |-> 10000, decimals |-> 2,
             toNum |-> 10000, toDen |-> 1],
   sqm  |-> [num |-> 1, den |-> 1, decimals |-> 0,
             toNum |-> 1, toDen |-> 1],
   acre |-> [num |-> 100, den |-> 404686, decimals |-> 2,
             toNum |-> 404700, toDen |-> 100],
   sqft |-> [num |-> 1000000, den |-> 92903, decimals |-> 0,
             toNum |-> 92903, toDen |-> 1000000]]

(* UNIT_CONVERSIONS: fromSqMeters as the fraction num/den, toSqMeters as    *)
(* the fraction toNum/toDen, and decimals.                                  *)
UNIT_CONVERSIONS ==
  [ha   |-> [num |-> 1, den |-> 10000, decimals |-> 2,
             toNum |-> 10000, toDen |-> 1],
   sqm  |-> [num |-> 1, den |-> 1, decimals |-> 0,
             toNum |-> 1, toDen |-> 1],
   acre |-> [num |-> 100, den |-> 404686, decimals |-> 2,
             toNum |-> 404686, toDen |-> 100],
   sqft |-> [num |-> 1000000, den |-> 92903, decimals |-> 0,
             toNum |-> 92903, toDen |-> 1000000]]

Pow10(d) == IF d = 0 THEN 1 ELSE IF d = 1 THEN 10 ELSE 100

Abs(x) == IF x < 0 THEN 0 - x ELSE x

(* A toFixed that cuts the digits off instead of rounding.                  *)
toFixed_truncates(area, conversion) ==
  [digits |-> (area * Pow10(conversion.decimals) * conversion.num)
                 \div conversion.den,
   decimals |-> conversion.decimals]

(* Number.prototype.toFixed on area * fromSqMeters: the nearest multiple of *)
(* 10^-decimals, kept as its digits together with the number of decimals.   *)
(* Exactly half way between two multiples the upper one is taken here; the  *)
(* areas the editors compute are never half way.                            *)
toFixed(area, conversion) ==
  [digits |-> (area * Pow10(conversion.decimals) * conversion.num
                 + conversion.den \div 2) \div conversion.den,
   decimals |-> conversion.decimals]

(* useState elevationData starts as null: the statistics of no call.        *)
NullData == [call |-> 0, sampled |-> 0, finite |-> FALSE]

(* The literal '0' that Clear All and useState put in areaSize.             *)
ZeroString == [digits |-> 0, decimals |-> 0]

(* L.GeometryUtil.geodesicArea: 0 below 3 vertices, else the absolute value *)
(* of the sum over the closed ring of dLng * (2 + sin lat1 + sin lat2),     *)
(* scaled.  Lattice units are small angles (sin x = x); one unit of the sum *)
(* is 300 square meters.                                                    *)
RECURSIVE EdgeSum(_, _)
EdgeSum(latLngs, i) ==
  IF i > Len(latLngs) THEN 0
  ELSE LET p1 == latLngs[i]
           p2 == latLngs[(i % Len(latLngs)) + 1]
       IN (p2.lng - p1.lng) * (2 + p1.lat + p2.lat) + EdgeSum(latLngs, i + 1)

(* A geodesicArea that keeps the sign of the sum.                           *)
geodesicArea_signed(latLngs) ==
  IF Len(latLngs) > 2 THEN EdgeSum(latLngs, 1) * 300 ELSE 0

geodesicArea(latLngs) ==
  IF Len(latLngs) > 2 THEN Abs(EdgeSum(latLngs, 1)) * 300 ELSE 0

----------------------------------------------------------------------------
(* Leaflet FeatureGroup: layers are kept by stamp and listed in stamp order. *)
Layer(id, kind, latlngs) == [id |-> id, kind |-> kind, latlngs |-> latlngs]

RECURSIVE addLayer(_, _)
addLayer(items, layer) ==
  IF items = <<>> THEN <<layer>>
  ELSE IF Head(items).id = layer.id THEN items
  ELSE IF Head(items).id > layer.id THEN <<layer>> \o items
  ELSE <<Head(items)>> \o addLayer(Tail(items), layer)

removeLayer(items, id) == SelectSeq(items, LAMBDA l : l.id # id)

LayerIds(items) == {items[i].id : i \in 1..Len(items)}

(* The ring of the polygon the points editor draws into, layers[0].         *)
Ring(items) == IF items = <<>> THEN <<>> ELSE items[1].latlngs

----------------------------------------------------------------------------
Init ==
  /\ editor \in {"points", "layer"}
  /\ onAreaUpdate \in BOOLEAN
  /\ isDrawing = FALSE
  /\ selectedUnit = "ha"
  /\ unitChanges = 0
  /\ areaSize = ZeroString
  /\ notified = <<>>
  /\ points = <<>>
  /\ undoStack = <<>>
  /\ redoStack = <<>>
  /\ drawnItems = <<>>
  /\ nextStamp = 1
  /\ delivered = 0
  /\ gpsStatus = IF editor = "points" THEN "inactive" ELSE "idle"
  /\ locationError = ""
  /\ watchId = 0
  /\ gpsCalls = 0
  /\ pendingPos = {}
  /\ watches = {}
  /\ drawHandler = "null"
  /\ handlerEnabled = FALSE
  /\ threw = FALSE
  /\ trail = "none"
  /\ prePush = <<>>
  /\ postPush = <<>>
  /\ postPoints = <<>>
  /\ clearedAt = 0
  /\ isAnalyzing = FALSE
  /\ showElevationAnalysis = FALSE
  /\ elevationData = NullData
  /\ inFlight = {}
  /\ analysisCalls = 0
  /\ requests = 0
  /\ lastAlert = "none"
  /\ hung = FALSE
  /\ calc = [fn |-> "none", area |-> 0, unit |-> "sqm", ring |-> <<>>,
             out |-> 0]

----------------------------------------------------------------------------
(* History variables: how far the run is along the sequence push, undo,     *)
(* redo, with the group as it was around the push.                          *)
Note(step) ==
  /\ trail' = step
  /\ prePush' = IF step = "none" THEN <<>> ELSE prePush
  /\ postPush' = IF step = "none" THEN <<>> ELSE postPush
  /\ UNCHANGED clearedAt

(* A push: the snapshots are taken around it.                               *)
NotePush(before, after) ==
  /\ trail' = "push"
  /\ prePush' = before
  /\ postPush' = after
  /\ UNCHANGED clearedAt

(* A Clear All: what was delivered up to now was delivered before it.       *)
NoteClear ==
  /\ trail' = "none"
  /\ prePush' = <<>>
  /\ postPush' = <<>>
  /\ clearedAt' = delivered

AfterUndo == IF trail = "push" THEN "push.undo" ELSE "none"
AfterRedo == IF trail = "push.undo" THEN "push.undo.redo" ELSE "none"

gpsVars == <<gpsStatus, locationError, watchId, gpsCalls, pendingPos,
             watches>>
drawVars == <<drawHandler, handlerEnabled>>
propVars == <<editor, onAreaUpdate>>
analysisVars == <<isAnalyzing, showElevationAnalysis, elevationData, inFlight,
                  analysisCalls, requests, lastAlert, hung>>
idleVars == <<propVars, delivered, unitChanges, analysisVars, calc>>
(* idleVars without lastAlert, for the steps that alert.                    *)
silentVars == <<propVars, delivered, unitChanges, calc, isAnalyzing,
                showElevationAnalysis, elevationData, inFlight, analysisCalls,
                requests, hung>>

(* The text of the alert of both error callbacks of toggleGPS.              *)
GpsAlert == "Unable to get GPS location. Please check your device settings."

(* A position watch on which the browser has raised an error.               *)
Erred(registered, w) == (registered \ {w}) \cup {[w EXCEPT !.erred = TRUE]}

----------------------------------------------------------------------------
(* The points editor, src/unnamed/part_001.                                 *)

(* updateAreaSize(area) as created in a render whose selectedUnit is unit.  *)
(* The onAreaUpdate prop is called with the converted area when supplied.   *)
updateAreaSize(area, unit) ==
  /\ areaSize' = toFixed(area, UNIT_CONVERSIONS[unit])
  /\ notified' = IF onAreaUpdate THEN <<[area |-> area, unit |-> unit]>>
                 ELSE <<>>

(* A handler, or a branch of one, that leaves the area alone.               *)
NoAreaUpdate == UNCHANGED areaSize /\ notified' = <<>>

(* polygon.setLatLngs on layers[0].                                         *)
setLatLngs(items, latlngs) == [items EXCEPT ![1].latlngs = latlngs]

(* Map click.  The registered handler is the one of the current render.     *)
handleMapClick(newPoint) ==
  /\ editor = "points"
  /\ threw' = FALSE
  /\ UNCHANGED <<propVars, unitChanges, analysisVars, calc,
                 isDrawing, selectedUnit, gpsVars,
                 drawVars>>
  /\ IF ~isDrawing
     THEN /\ Note("none")
          /\ NoAreaUpdate /\ UNCHANGED <<points, undoStack, redoStack, drawnItems, nextStamp,
                         delivered, postPoints>>
     ELSE /\ delivered < MaxDelivered
          /\ delivered' = delivered + 1
          /\ points' = Append(points, newPoint)
          /\ undoStack' = Append(undoStack, newPoint)
          /\ redoStack' = <<>>
          /\ IF drawnItems = <<>>
             THEN /\ nextStamp <= MaxStamp
                  /\ drawnItems' = <<Layer(nextStamp, "polygon", <<newPoint>>)>>
                  /\ nextStamp' = nextStamp + 1
                  /\ NoAreaUpdate
             ELSE /\ drawnItems' = setLatLngs(drawnItems, Append(points, newPoint))
                  /\ updateAreaSize(geodesicArea(Append(points, newPoint)),
                                    selectedUnit)
                  /\ UNCHANGED nextStamp
          /\ NotePush(drawnItems, drawnItems')
          /\ postPoints' = points'

handleUndo ==
  /\ editor = "points"
  /\ threw' = FALSE
  /\ Note(IF points = <<>> THEN "none" ELSE AfterUndo)
  /\ UNCHANGED <<idleVars, isDrawing, selectedUnit, gpsVars, drawVars,
                 undoStack, nextStamp, postPoints>>
  /\ IF points = <<>>
     THEN NoAreaUpdate /\ UNCHANGED <<points, redoStack, drawnItems>>
     ELSE LET newPoints == SubSeq(points, 1, Len(points) - 1)
              removedPoint == points[Len(points)]
          IN /\ points' = newPoints
             /\ redoStack' = Append(redoStack, removedPoint)
             /\ IF drawnItems # <<>>
                THEN /\ drawnItems' = setLatLngs(drawnItems, newPoints)
                     /\ updateAreaSize(IF Len(newPoints) > 2
                                       THEN geodesicArea(newPoints) ELSE 0,
                                       selectedUnit)
                ELSE NoAreaUpdate /\ UNCHANGED <<drawnItems>>

(* A redo that restores the point and leaves it on the redo stack.          *)
handleRedo_keepsEntry ==
  /\ editor = "points"
  /\ threw' = FALSE
  /\ Note(IF redoStack = <<>> THEN "none" ELSE AfterRedo)
  /\ UNCHANGED <<idleVars, isDrawing, selectedUnit, gpsVars, drawVars,
                 undoStack, redoStack, nextStamp, postPoints>>
  /\ IF redoStack = <<>>
     THEN NoAreaUpdate /\ UNCHANGED <<points, drawnItems>>
     ELSE LET newPoints == Append(points, redoStack[Len(redoStack)])
          IN /\ points' = newPoints
             /\ IF drawnItems # <<>>
                THEN /\ drawnItems' = setLatLngs(drawnItems, newPoints)
                     /\ updateAreaSize(geodesicArea(newPoints), selectedUnit)
                ELSE NoAreaUpdate /\ UNCHANGED <<drawnItems>>

handleRedo ==
  /\ editor = "points"
  /\ threw' = FALSE
  /\ Note(IF redoStack = <<>> THEN "none" ELSE AfterRedo)
  /\ UNCHANGED <<idleVars, isDrawing, selectedUnit, gpsVars, drawVars,
                 undoStack, nextStamp, postPoints>>
  /\ IF redoStack = <<>>
     THEN NoAreaUpdate /\ UNCHANGED <<points, redoStack, drawnItems>>
     ELSE LET point == redoStack[Len(redoStack)]
              newPoints == Append(points, point)
          IN /\ redoStack' = SubSeq(redoStack, 1, Len(redoStack) - 1)
             /\ points' = newPoints
             /\ IF drawnItems # <<>>
                THEN /\ drawnItems' = setLatLngs(drawnItems, newPoints)
                     /\ updateAreaSize(geodesicArea(newPoints), selectedUnit)
                ELSE NoAreaUpdate /\ UNCHANGED <<drawnItems>>

(* A toggle that only ever switches drawing on.                             *)
toggleDrawing_alwaysOn ==
  /\ editor = "points"
  /\ isDrawing' = TRUE
  /\ threw' = FALSE
  /\ Note("none")
  /\ NoAreaUpdate /\ UNCHANGED <<idleVars, selectedUnit, points, undoStack,
                 redoStack, drawnItems, nextStamp, gpsVars, drawVars,
                 postPoints>>

(* isEditing is never set to true, so only the flip remains.                *)
toggleDrawing ==
  /\ editor = "points"
  /\ isDrawing' = ~isDrawing
  /\ threw' = FALSE
  /\ Note("none")
  /\ NoAreaUpdate /\ UNCHANGED <<idleVars, selectedUnit, points, undoStack,
                 redoStack, drawnItems, nextStamp, gpsVars, drawVars,
                 postPoints>>

(* A Clear All that leaves the displayed area as it is.                     *)
clearAll_keepsArea ==
  /\ editor = "points"
  /\ drawnItems' = <<>>
  /\ undoStack' = <<>>
  /\ redoStack' = <<>>
  /\ threw' = FALSE
  /\ NoteClear
  /\ postPoints' = <<>>
  /\ NoAreaUpdate /\ UNCHANGED <<idleVars, isDrawing, selectedUnit, points,
                 nextStamp, gpsVars, drawVars>>

(* Clear All button.                                                        *)
clearAll ==
  /\ editor = "points"
  /\ drawnItems' = <<>>
  /\ areaSize' = ZeroString
  /\ notified' = <<>>
  /\ undoStack' = <<>>
  /\ redoStack' = <<>>
  /\ threw' = FALSE
  /\ NoteClear
  /\ postPoints' = <<>>
  /\ UNCHANGED <<idleVars, isDrawing, selectedUnit, points, nextStamp, gpsVars,
                 drawVars>>

(* Unit select onChange: updateAreaSize is the one of the current render,   *)
(* and the argument reads the last layer, which does not exist when the     *)
(* group is empty.                                                          *)
selectUnit(unit) ==
  /\ editor = "points"
  /\ unit # selectedUnit
  /\ unitChanges < MaxUnitChanges
  /\ unitChanges' = unitChanges + 1
  /\ selectedUnit' = unit
  /\ IF drawnItems = <<>>
     THEN /\ threw' = TRUE
          /\ NoAreaUpdate
     ELSE /\ threw' = FALSE
          /\ updateAreaSize(geodesicArea(drawnItems[Len(drawnItems)].latlngs),
                            selectedUnit)
  /\ Note("none")
  /\ UNCHANGED <<propVars, delivered, analysisVars, calc,
                 isDrawing, points, undoStack, redoStack,
                 drawnItems, nextStamp, gpsVars, drawVars, postPoints>>

(* navigator.geolocation.clearWatch.                                        *)
clearWatch(ws, id) == {w \in ws : w.id # id}

(* toggleGPS.  The callbacks it creates keep isDrawing and updateAreaSize   *)
(* of the render in which the button was clicked.                           *)
toggleGPS ==
  /\ editor = "points"
  /\ threw' = FALSE
  /\ Note("none")
  /\ NoAreaUpdate /\ UNCHANGED <<idleVars, isDrawing, selectedUnit, points,
                 undoStack, redoStack, drawnItems, nextStamp, drawVars,
                 postPoints, locationError>>
  /\ IF gpsStatus = "inactive"
     THEN /\ gpsCalls < MaxGpsCalls
          /\ gpsStatus' = "searching"
          /\ gpsCalls' = gpsCalls + 1
          /\ pendingPos' = pendingPos \cup
               {[call |-> gpsCalls + 1, isDrawing |-> isDrawing,
                 unit |-> selectedUnit]}
          /\ UNCHANGED <<watchId, watches>>
     ELSE /\ watches' = IF watchId # 0 THEN clearWatch(watches, watchId)
                        ELSE watches
          /\ watchId' = 0
          /\ gpsStatus' = "inactive"
          /\ UNCHANGED <<gpsCalls, pendingPos>>

(* getCurrentPosition success callback: starts the watch.  Changing watchId *)
(* runs the cleanup of the [watchId] effect, which clears the old watch.    *)
positionSuccess(req) ==
  /\ editor = "points"
  /\ req \in pendingPos
  /\ pendingPos' = pendingPos \ {req}
  /\ watches' = (IF watchId # 0 THEN clearWatch(watches, watchId) ELSE watches)
                  \cup {[id |-> req.call, isDrawing |-> req.isDrawing,
                         unit |-> req.unit, erred |-> FALSE]}
  /\ watchId' = req.call
  /\ gpsStatus' = "active"
  /\ threw' = FALSE
  /\ Note("none")
  /\ NoAreaUpdate /\ UNCHANGED <<idleVars, isDrawing, selectedUnit, points,
                 undoStack, redoStack, drawnItems, nextStamp, gpsCalls,
                 drawVars, postPoints, locationError>>

(* getCurrentPosition error callback: the status goes back to inactive and *)
(* the failure is alerted.                                                  *)
positionError(req) ==
  /\ editor = "points"
  /\ req \in pendingPos
  /\ pendingPos' = pendingPos \ {req}
  /\ gpsStatus' = "inactive"
  /\ lastAlert' = GpsAlert
  /\ threw' = FALSE
  /\ Note("none")
  /\ NoAreaUpdate /\ UNCHANGED <<silentVars, isDrawing, selectedUnit, points,
                 undoStack, redoStack, drawnItems, nextStamp, watchId,
                 gpsCalls, watches, drawVars, postPoints, locationError>>

(* watchPosition success callback of watch w, delivering newLatLng.         *)
watchFix(w, newLatLng) ==
  /\ editor = "points"
  /\ w \in watches
  /\ threw' = FALSE
  /\ Note("none")
  /\ UNCHANGED <<propVars, unitChanges, analysisVars, calc,
                 isDrawing, selectedUnit, points, undoStack,
                 redoStack, gpsVars, drawVars, postPoints>>
  /\ IF w.isDrawing
     THEN /\ delivered < MaxDelivered
          /\ delivered' = delivered + 1
          /\ IF drawnItems # <<>>
             THEN LET latlngs == Append(drawnItems[1].latlngs, newLatLng)
                  IN /\ drawnItems' = setLatLngs(drawnItems, latlngs)
                     /\ updateAreaSize(geodesicArea(latlngs), w.unit)
                     /\ UNCHANGED nextStamp
             ELSE /\ nextStamp <= MaxStamp
                  /\ drawnItems' = <<Layer(nextStamp, "polygon", <<newLatLng>>)>>
                  /\ nextStamp' = nextStamp + 1
                  /\ NoAreaUpdate
     ELSE NoAreaUpdate /\ UNCHANGED <<drawnItems, nextStamp, delivered>>

(* watchPosition error callback of watch w: the status goes back to        *)
(* inactive and the failure is alerted; the watch stays registered.         *)
watchError(w) ==
  /\ editor = "points"
  /\ w \in watches
  /\ watches' = Erred(watches, w)
  /\ gpsStatus' = "inactive"
  /\ lastAlert' = GpsAlert
  /\ threw' = FALSE
  /\ Note("none")
  /\ NoAreaUpdate /\ UNCHANGED <<silentVars, isDrawing, selectedUnit, points,
                 undoStack, redoStack, drawnItems, nextStamp, watchId,
                 gpsCalls, pendingPos, drawVars, postPoints, locationError>>

----------------------------------------------------------------------------
(* Terrain analysis of the points editor.  No control of the component      *)
(* calls analyzeElevation; it is taken as callable whenever the page runs.  *)

analysisFrame == <<propVars, delivered, unitChanges, calc, isDrawing,
                   selectedUnit, areaSize, notified, points, undoStack,
                   redoStack, gpsVars, drawVars, threw, trail, prePush, postPush,
                   postPoints, clearedAt>>

(* polygon.getBounds(): the extreme latitudes and longitudes of the ring.   *)
Least(S) == CHOOSE x \in S : \A y \in S : x <= y

Greatest(S) == CHOOSE x \in S : \A y \in S : x >= y

getBounds(polygon) ==
  [south |-> Least({polygon[i].lat : i \in 1..Len(polygon)}),
   north |-> Greatest({polygon[i].lat : i \in 1..Len(polygon)}),
   west  |-> Least({polygon[i].lng : i \in 1..Len(polygon)}),
   east  |-> Greatest({polygon[i].lng : i \in 1..Len(polygon)})]

(* The edge from polygon[j] to polygon[i] crosses the parallel of the point *)
(* on its far side.  The source compares point.lat with                     *)
(* (xj - xi) * (point.lng - yi) / (yj - yi) + xi; the division is cleared   *)
(* here by multiplying with yj - yi, which is not 0 when the first test     *)
(* holds, and turning the comparison when it is negative.                   *)
intersect(point, pi, pj) ==
  /\ (pi.lng > point.lng) # (pj.lng > point.lng)
  /\ IF pj.lng - pi.lng > 0
     THEN (point.lat - pi.lat) * (pj.lng - pi.lng)
            < (pj.lat - pi.lat) * (point.lng - pi.lng)
     ELSE (point.lat - pi.lat) * (pj.lng - pi.lng)
            > (pj.lat - pi.lat) * (point.lng - pi.lng)

(* An isPointInPolygon that leaves out the edge from the last vertex back   *)
(* to the first.                                                            *)
isPointInPolygon_openRing(point, polygon) ==
  Cardinality({i \in 2..Len(polygon) :
                 intersect(point, polygon[i], polygon[i - 1])}) % 2 = 1

(* An isPointInPolygon that counts an edge only when it runs towards lower  *)
(* longitudes.                                                              *)
isPointInPolygon_oneWay(point, polygon) ==
  Cardinality({i \in 1..Len(polygon) :
                 LET j == IF i = 1 THEN Len(polygon) ELSE i - 1
                 IN /\ polygon[j].lng > polygon[i].lng
                    /\ intersect(point, polygon[i], polygon[j])}) % 2 = 1

(* isPointInPolygon: inside is flipped once for every edge (j, i) that      *)
(* intersects, j running one behind i and starting at the last vertex.      *)
isPointInPolygon(point, polygon) ==
  Cardinality({i \in 1..Len(polygon) :
                 LET j == IF i = 1 THEN Len(polygon) ELSE i - 1
                 IN intersect(point, polygon[i], polygon[j])}) % 2 = 1

(* The points the two loops of createAnalysisGrid visit, in the order of    *)
(* the loops.  Coordinates are in units of 1/resolution of the polygon's,   *)
(* so that a step is the whole number north - south or east - west: the     *)
(* k-th latitude is south + k * latStep, visited while it is <= north.      *)
GridCandidates(bounds, resolution) ==
  LET latStep == bounds.north - bounds.south
      lngStep == bounds.east - bounds.west
      rows == {k \in 0..resolution + 1 :
                 bounds.south * resolution + k * latStep
                   <= bounds.north * resolution}
      cols == {k \in 0..resolution + 1 :
                 bounds.west * resolution + k * lngStep
                   <= bounds.east * resolution}
      nr == Cardinality(rows)
      nc == Cardinality(cols)
  IN [m \in 1..nr * nc |->
        LatLng(bounds.south * resolution + ((m - 1) \div nc) * latStep,
               bounds.west * resolution + ((m - 1) % nc) * lngStep)]

(* The ring in units of 1/k of its own.                                     *)
Scaled(polygon, k) ==
  [i \in 1..Len(polygon) |-> LatLng(polygon[i].lat * k, polygon[i].lng * k)]

(* The list createAnalysisGrid(bounds, polygon, resolution) returns when    *)
(* both steps are positive: the candidates inside the polygon.              *)
analysisGridPoints(polygon, resolution) ==
  LET inPolygon(point) ==
        isPointInPolygon(point, Scaled(polygon, resolution))
  IN SelectSeq(GridCandidates(getBounds(polygon), resolution), inPolygon)

(* The cells of an analysis are added to the layer group after the polygon. *)
(* The model keeps the last one, which later code reads as the last layer   *)
(* of the group: its corners are the last sample but one, and three times   *)
(* the last sample.  The two samples lie in one row of the grid or in two,  *)
(* depending on the field.                                                  *)
LastCells ==
  {<<LatLng(0, 0), LatLng(0, 1), LatLng(0, 1), LatLng(0, 1)>>,
   <<LatLng(0, 0), LatLng(1, 1), LatLng(1, 1), LatLng(1, 1)>>}

(* The rings clicks, Undo and Redo draw: delivered coordinates in the order *)
(* of delivery.  For each of them and of the cells, whether its grid of     *)
(* resolution 20 retains a point; merging with the empty function makes the *)
(* table explicit, so that it is computed once.                             *)
EditorRings ==
  {[i \in 1..Cardinality(S) |->
      Vertex(CHOOSE k \in S : Cardinality({j \in S : j < k}) = i - 1)] :
   S \in (SUBSET (1..MaxDelivered)) \ {{}}}

RetainsSamples ==
  [polygon \in EditorRings \cup LastCells |->
     LET bounds == getBounds(polygon)
     IN /\ bounds.north > bounds.south
        /\ bounds.east > bounds.west
        /\ analysisGridPoints(polygon, 20) # <<>>] @@ <<>>

(* createAnalysisGrid(bounds, polygon, 20), by its outcome.  The bounds of  *)
(* an empty ring have no corners, so reading them throws.  When all         *)
(* latitudes or all longitudes are equal a step is 0 and the loop never     *)
(* ends.  Otherwise the samples inside the ring are returned, of which      *)
(* there may be none.                                                       *)
createAnalysisGrid(polygon) ==
  IF polygon = <<>> THEN "throws"
  ELSE IF \/ \A i \in 1..Len(polygon) : polygon[i].lat = polygon[1].lat
          \/ \A i \in 1..Len(polygon) : polygon[i].lng = polygon[1].lng
       THEN "hangs"
       ELSE IF (IF polygon \in DOMAIN RetainsSamples
                THEN RetainsSamples[polygon]
                ELSE analysisGridPoints(polygon, 20) # <<>>)
            THEN "samples" ELSE "empty"

(* setElevationData and setShowElevationAnalysis(true), then the finally.   *)
(* finite: the minimum and maximum were taken over at least one elevation.  *)
(* lastAlert is the alert raised by the latest step of an analysis, "none"  *)
(* when that step raised none.                                              *)
publish(call, sampled, finite) ==
  /\ elevationData' = [call |-> call, sampled |-> sampled, finite |-> finite]
  /\ showElevationAnalysis' = TRUE
  /\ isAnalyzing' = FALSE
  /\ lastAlert' = "none"

(* analyzeElevation up to its await of the elevation request.               *)
analyzeElevation ==
  /\ editor = "points"
  /\ analysisCalls < MaxAnalyses
  /\ analysisCalls' = analysisCalls + 1
  /\ UNCHANGED <<analysisFrame, drawnItems, nextStamp>>
  /\ IF drawnItems = <<>>
     THEN /\ lastAlert' = "Please draw a field first"
          /\ isAnalyzing' = FALSE
          /\ UNCHANGED <<showElevationAnalysis, elevationData, inFlight,
                         requests, hung>>
     ELSE LET polygon == drawnItems[Len(drawnItems)]
              gridPoints == createAnalysisGrid(polygon.latlngs)
          IN CASE gridPoints = "throws" ->
                    /\ lastAlert' = "Failed to analyze elevation"
                    /\ isAnalyzing' = FALSE
                    /\ UNCHANGED <<showElevationAnalysis, elevationData,
                                   inFlight, requests, hung>>
               [] gridPoints = "hangs" ->
                    /\ hung' = TRUE
                    /\ UNCHANGED <<isAnalyzing, showElevationAnalysis,
                                   elevationData, inFlight, requests,
                                   lastAlert>>
               [] gridPoints = "empty" ->
                    /\ publish(analysisCalls + 1, polygon.id, FALSE)
                    /\ UNCHANGED <<inFlight, requests, hung>>
               [] gridPoints = "samples" ->
                    /\ isAnalyzing' = TRUE
                    /\ requests' = requests + 1
                    /\ inFlight' = inFlight \cup
                         {[call |-> analysisCalls + 1, sampled |-> polygon.id]}
                    /\ lastAlert' = "none"
                    /\ UNCHANGED <<showElevationAnalysis, elevationData, hung>>

(* The rest of analyzeElevation, from the answer of /api/elevation on.      *)
(* "OK": status 200 with one result per sample.  "500": the route's error   *)
(* answer, a body without results, which getElevationData reads as no       *)
(* result.  "rejected": fetch or response.json() fails.                     *)
elevationResponse(a, status) ==
  /\ editor = "points"
  /\ a \in inFlight
  /\ inFlight' = inFlight \ {a}
  /\ UNCHANGED <<analysisFrame, analysisCalls, requests, hung>>
  /\ CASE status = "rejected" ->
            /\ lastAlert' = "Failed to analyze elevation"
            /\ isAnalyzing' = FALSE
            /\ UNCHANGED <<showElevationAnalysis, elevationData, drawnItems,
                           nextStamp>>
       [] status = "500" ->
            /\ publish(a.call, a.sampled, FALSE)
            /\ UNCHANGED <<drawnItems, nextStamp>>
       [] status = "OK" ->
            /\ nextStamp <= MaxStamp
            /\ \E cell \in LastCells :
                 drawnItems' = addLayer(drawnItems,
                                        Layer(nextStamp, "elevation-cell", cell))
            /\ nextStamp' = nextStamp + 1
            /\ publish(a.call, a.sampled, TRUE)

(* The close button of the result panel.                                    *)
dismissPanel ==
  /\ editor = "points"
  /\ showElevationAnalysis
  /\ elevationData # NullData
  /\ showElevationAnalysis' = FALSE
  /\ UNCHANGED <<analysisFrame, drawnItems, nextStamp, isAnalyzing,
                 elevationData, inFlight, analysisCalls, requests, lastAlert,
                 hung>>

----------------------------------------------------------------------------
(* The layer editor, src/components/Map.tsx.                                *)

(* eachLayer overwrites the total with each polygon's area: the area of the *)
(* last polygon in the group remains, 0 when there is none.                 *)
RECURSIVE totalAreaInSqMeters(_)
totalAreaInSqMeters(items) ==
  IF items = <<>> THEN 0
  ELSE IF items[Len(items)].kind = "polygon"
       THEN geodesicArea(items[Len(items)].latlngs)
       ELSE totalAreaInSqMeters(SubSeq(items, 1, Len(items) - 1))

(* updateAreaSize() as created in a render whose selectedUnit is unit, run  *)
(* on the group items.  With the prop supplied it ends in the call of the   *)
(* undeclared onAreaSize, after areaSize has been set.                      *)
Map_updateAreaSize(items, unit) ==
  /\ areaSize' = toFixed(totalAreaInSqMeters(items), UNIT_CONVERSIONS[unit])
  /\ notified' = <<>>
  /\ threw' = onAreaUpdate

(* startDrawing: drawHandler is set together with isDrawing.                *)
Map_startDrawing ==
  /\ editor = "layer"
  /\ IF isDrawing /\ drawHandler # "null"
     THEN /\ handlerEnabled' = FALSE
          /\ drawHandler' = "null"
          /\ isDrawing' = FALSE
     ELSE /\ handlerEnabled' = TRUE
          /\ drawHandler' = "polygon"
          /\ isDrawing' = TRUE
  /\ threw' = FALSE
  /\ Note("none")
  /\ NoAreaUpdate /\ UNCHANGED <<idleVars, selectedUnit, points, undoStack,
                 redoStack, drawnItems, nextStamp, gpsVars, postPoints>>

(* draw-created, delivered by the enabled draw handler with a finished      *)
(* polygon.  The listener is the handleDrawCreated of the first render, so  *)
(* its updateAreaSize converts with the initial unit.  The draw handler     *)
(* disables itself after the listeners return.                              *)
Map_handleDrawCreated(ring) ==
  /\ editor = "layer"
  /\ handlerEnabled
  /\ nextStamp <= MaxStamp
  /\ LET layer == Layer(nextStamp, "polygon", ring)
     IN /\ drawnItems' = addLayer(drawnItems, layer)
        /\ undoStack' = Append(undoStack, [type |-> "add", layer |-> layer])
        /\ redoStack' = <<>>
        /\ Map_updateAreaSize(drawnItems', "ha")
  /\ nextStamp' = nextStamp + 1
  /\ handlerEnabled' = threw'
  /\ NotePush(drawnItems, drawnItems')
  /\ UNCHANGED <<idleVars, isDrawing, selectedUnit, points, gpsVars,
                 drawHandler, postPoints>>

Map_handleUndo ==
  /\ editor = "layer"
  /\ Note(IF undoStack = <<>> THEN "none" ELSE AfterUndo)
  /\ UNCHANGED <<idleVars, isDrawing, selectedUnit, points, nextStamp,
                 gpsVars, drawVars, postPoints>>
  /\ IF undoStack = <<>>
     THEN /\ threw' = FALSE
          /\ NoAreaUpdate /\ UNCHANGED <<undoStack, redoStack, drawnItems>>
     ELSE LET lastAction == undoStack[Len(undoStack)]
          IN /\ undoStack' = SubSeq(undoStack, 1, Len(undoStack) - 1)
             /\ IF lastAction.type = "add"
                THEN /\ drawnItems' = removeLayer(drawnItems, lastAction.layer.id)
                     /\ redoStack' = Append(redoStack, lastAction)
                ELSE /\ drawnItems' = addLayer(drawnItems, lastAction.layer)
                     /\ redoStack' = Append(redoStack,
                          [type |-> "add", layer |-> lastAction.layer])
             /\ Map_updateAreaSize(drawnItems', selectedUnit)

Map_handleRedo ==
  /\ editor = "layer"
  /\ Note(IF redoStack = <<>> THEN "none" ELSE AfterRedo)
  /\ UNCHANGED <<idleVars, isDrawing, selectedUnit, points, nextStamp,
                 gpsVars, drawVars, postPoints>>
  /\ IF redoStack = <<>>
     THEN /\ threw' = FALSE
          /\ NoAreaUpdate /\ UNCHANGED <<undoStack, redoStack, drawnItems>>
     ELSE LET lastAction == redoStack[Len(redoStack)]
          IN /\ redoStack' = SubSeq(redoStack, 1, Len(redoStack) - 1)
             /\ IF lastAction.type = "add"
                THEN /\ drawnItems' = addLayer(drawnItems, lastAction.layer)
                     /\ undoStack' = Append(undoStack, lastAction)
                ELSE /\ drawnItems' = removeLayer(drawnItems, lastAction.layer.id)
                     /\ undoStack' = Append(undoStack,
                          [type |-> "delete", layer |-> lastAction.layer])
             /\ Map_updateAreaSize(drawnItems', selectedUnit)

(* Clear All button.                                                        *)
Map_clearAll ==
  /\ editor = "layer"
  /\ drawnItems' = <<>>
  /\ areaSize' = ZeroString
  /\ notified' = <<>>
  /\ undoStack' = <<>>
  /\ redoStack' = <<>>
  /\ threw' = FALSE
  /\ NoteClear
  /\ UNCHANGED <<idleVars, isDrawing, selectedUnit, points, nextStamp, gpsVars,
                 drawVars, postPoints>>

(* Unit select onChange: updateAreaSize is the one of the current render.   *)
Map_selectUnit(unit) ==
  /\ editor = "layer"
  /\ unit # selectedUnit
  /\ unitChanges < MaxUnitChanges
  /\ unitChanges' = unitChanges + 1
  /\ selectedUnit' = unit
  /\ Map_updateAreaSize(drawnItems, selectedUnit)
  /\ Note("none")
  /\ UNCHANGED <<propVars, delivered, analysisVars, calc,
                 isDrawing, points, undoStack, redoStack,
                 drawnItems, nextStamp, gpsVars, drawVars, postPoints>>

(* getCurrentLocation: one getCurrentPosition request and one position      *)
(* watch that is never cleared.  The button is disabled while searching.    *)
Map_getCurrentLocation ==
  /\ editor = "layer"
  /\ gpsStatus # "searching"
  /\ gpsCalls < MaxGpsCalls
  /\ gpsStatus' = "searching"
  /\ locationError' = ""
  /\ gpsCalls' = gpsCalls + 1
  /\ pendingPos' = pendingPos \cup
       {[call |-> gpsCalls + 1, isDrawing |-> isDrawing, unit |-> selectedUnit]}
  /\ watches' = watches \cup
       {[id |-> gpsCalls + 1, isDrawing |-> isDrawing, unit |-> selectedUnit,
         erred |-> FALSE]}
  /\ threw' = FALSE
  /\ Note("none")
  /\ NoAreaUpdate /\ UNCHANGED <<idleVars, isDrawing, selectedUnit, points,
                 undoStack, redoStack, drawnItems, nextStamp, watchId,
                 drawVars, postPoints>>

(* getCurrentPosition success callback: an accuracy worse than 100 m is    *)
(* warned of; the group is cleared and receives the position marker and the *)
(* accuracy circle.                                                         *)
Map_locateSuccess(req) ==
  /\ editor = "layer"
  /\ req \in pendingPos
  /\ pendingPos' = pendingPos \ {req}
  /\ \E accurate \in BOOLEAN :
       locationError' = IF accurate THEN locationError
                        ELSE "Warning: GPS accuracy"
  /\ drawnItems' = <<Layer(nextStamp, "marker", <<>>),
                     Layer(nextStamp + 1, "circle", <<>>)>>
  /\ nextStamp' = nextStamp + 2
  /\ gpsStatus' = "found"
  /\ threw' = FALSE
  /\ Note("none")
  /\ NoAreaUpdate /\ UNCHANGED <<idleVars, isDrawing, selectedUnit, points,
                 undoStack, redoStack, watchId, gpsCalls, watches,
                 drawVars, postPoints>>

(* The message the getCurrentPosition error callback picks for an error    *)
(* code.                                                                    *)
ErrorCodes == {"PERMISSION_DENIED", "POSITION_UNAVAILABLE", "TIMEOUT"}

errorMessage(code) ==
  IF code = "PERMISSION_DENIED"
  THEN "Please allow GPS access to use this feature"
  ELSE IF code = "POSITION_UNAVAILABLE"
  THEN "Location information unavailable"
  ELSE IF code = "TIMEOUT" THEN "Location request timed out"
  ELSE "Failed to get location"

(* getCurrentPosition error callback: the message is shown under the map.   *)
Map_locateError(req) ==
  /\ editor = "layer"
  /\ req \in pendingPos
  /\ pendingPos' = pendingPos \ {req}
  /\ \E code \in ErrorCodes : locationError' = errorMessage(code)
  /\ gpsStatus' = "error"
  /\ threw' = FALSE
  /\ Note("none")
  /\ NoAreaUpdate /\ UNCHANGED <<idleVars, isDrawing, selectedUnit, points,
                 undoStack, redoStack, drawnItems, nextStamp, watchId,
                 gpsCalls, watches, drawVars, postPoints>>

(* watchPosition callback: moves the marker and the circle, whose positions *)
(* are not part of the state kept here.                                     *)
Map_watchFix(w) ==
  /\ editor = "layer"
  /\ w \in watches
  /\ threw' = FALSE
  /\ Note("none")
  /\ NoAreaUpdate /\ UNCHANGED <<idleVars, isDrawing, selectedUnit, points,
                 undoStack, redoStack, drawnItems, nextStamp, gpsVars,
                 drawVars, postPoints>>

(* The browser raises an error on watch w.  watchPosition was given null as *)
(* its error callback, so no code of the component runs.                    *)
Map_watchError(w) ==
  /\ editor = "layer"
  /\ w \in watches
  /\ ~w.erred
  /\ watches' = Erred(watches, w)
  /\ UNCHANGED <<idleVars, isDrawing, selectedUnit, areaSize, notified,
                 points,
                 undoStack, redoStack, drawnItems, nextStamp, gpsStatus,
                 locationError, watchId, gpsCalls, pendingPos, drawVars,
                 threw, trail, prePush, postPush, postPoints, clearedAt>>

----------------------------------------------------------------------------
Next ==
  \/ \E newPoint \in NewLatLngs : handleMapClick(newPoint)
  \/ handleUndo
  \/ handleRedo
  \/ toggleDrawing
  \/ clearAll
  \/ \E unit \in Units : selectUnit(unit)
  \/ toggleGPS
  \/ \E req \in pendingPos : positionSuccess(req)
  \/ \E req \in pendingPos : positionError(req)
  \/ \E w \in watches : \E newLatLng \in NewLatLngs : watchFix(w, newLatLng)
  \/ \E w \in watches : watchError(w)
  \/ Map_startDrawing
  \/ \E ring \in DrawnRings : Map_handleDrawCreated(ring)
  \/ Map_handleUndo
  \/ Map_handleRedo
  \/ Map_clearAll
  \/ \E unit \in Units : Map_selectUnit(unit)
  \/ Map_getCurrentLocation
  \/ \E req \in pendingPos : Map_locateSuccess(req)
  \/ \E req \in pendingPos : Map_locateError(req)
  \/ \E w \in watches : Map_watchFix(w)
  \/ \E w \in watches : Map_watchError(w)

Spec == Init /\ [][Next]_vars

(* The points editor driven by clicks, undo, redo and the drawing toggle    *)
(* only.                                                                    *)
InitEdit == Init /\ editor = "points"

NextEdit ==
  \/ \E newPoint \in NewLatLngs : handleMapClick(newPoint)
  \/ handleUndo
  \/ handleRedo
  \/ toggleDrawing

SpecEdit == InitEdit /\ [][NextEdit]_vars

(* The points editor receiving vertices only: clicks and GPS watch fixes,   *)
(* with the drawing toggle and the GPS button that let them in.             *)
NextAppend ==
  \/ \E newPoint \in NewLatLngs : handleMapClick(newPoint)
  \/ toggleDrawing
  \/ \E unit \in Units : selectUnit(unit)
  \/ toggleGPS
  \/ \E req \in pendingPos : positionSuccess(req)
  \/ \E w \in watches : \E newLatLng \in NewLatLngs : watchFix(w, newLatLng)

SpecAppend == InitEdit /\ [][NextAppend]_vars

(* The points editor edited by clicks, with Clear All.                      *)
NextEditClear ==
  \/ \E newPoint \in NewLatLngs : handleMapClick(newPoint)
  \/ handleUndo
  \/ handleRedo
  \/ toggleDrawing
  \/ clearAll

SpecEditClear == InitEdit /\ [][NextEditClear]_vars

(* The points editor with terrain analysis.  Nothing runs while the page is *)
(* inside a loop that never ends.                                           *)
ResponseStatus == {"OK", "500", "rejected"}

NextAnalysis ==
  /\ ~hung
  /\ \/ \E newPoint \in NewLatLngs : handleMapClick(newPoint)
     \/ handleUndo
     \/ handleRedo
     \/ toggleDrawing
     \/ clearAll
     \/ \E unit \in Units : selectUnit(unit)
     \/ analyzeElevation
     \/ \E a \in inFlight : \E status \in ResponseStatus :
          elevationResponse(a, status)
     \/ dismissPanel

SpecAnalysis == InitEdit /\ [][NextAnalysis]_vars

(* The conversion and the area as functions: the arguments are chosen at    *)
(* the start, and the one step applies the function and keeps the result.   *)
Areas == 0..MaxArea

Lattice == {LatLng(a, b) : a \in 0..MaxLat, b \in 0..1}

Rings == UNION {[1..n -> Lattice] : n \in 3..MaxRing}

programVars == <<propVars, delivered, unitChanges, analysisVars, isDrawing,
                 selectedUnit, areaSize, notified, points, undoStack,
                 redoStack,
                 drawnItems, nextStamp, gpsVars, drawVars, threw, trail,
                 prePush, postPush, postPoints, clearedAt>>

InitCalc ==
  /\ editor = "points"
  /\ onAreaUpdate = FALSE
  /\ isDrawing = FALSE
  /\ selectedUnit = "ha"
  /\ unitChanges = 0
  /\ areaSize = ZeroString
  /\ notified = <<>>
  /\ points = <<>>
  /\ undoStack = <<>>
  /\ redoStack = <<>>
  /\ drawnItems = <<>>
  /\ nextStamp = 1
  /\ delivered = 0
  /\ gpsStatus = "inactive"
  /\ locationError = ""
  /\ watchId = 0
  /\ gpsCalls = 0
  /\ pendingPos = {}
  /\ watches = {}
  /\ drawHandler = "null"
  /\ handlerEnabled = FALSE
  /\ threw = FALSE
  /\ trail = "none"
  /\ prePush = <<>>
  /\ postPush = <<>>
  /\ postPoints = <<>>
  /\ clearedAt = 0
  /\ isAnalyzing = FALSE
  /\ showElevationAnalysis = FALSE
  /\ elevationData = NullData
  /\ inFlight = {}
  /\ analysisCalls = 0
  /\ requests = 0
  /\ lastAlert = "none"
  /\ hung = FALSE
  /\ \/ \E area \in Areas : \E unit \in Units :
          calc = [fn |-> "none", area |-> area, unit |-> unit,
                  ring |-> <<>>, out |-> 0]
     \/ \E latLngs \in Rings :
          calc = [fn |-> "none", area |-> 0, unit |-> "sqm",
                  ring |-> latLngs, out |-> 0]

(* updateAreaSize(area) in a render whose selectedUnit is unit: the string  *)
(* it passes to setAreaSize.                                                *)
applyConversion ==
  /\ calc.fn = "none"
  /\ calc.ring = <<>>
  /\ calc' = [calc EXCEPT !.fn = "convert",
                          !.out = toFixed(calc.area,
                                          UNIT_CONVERSIONS[calc.unit])]
  /\ UNCHANGED programVars

(* L.GeometryUtil.geodesicArea(latLngs).                                    *)
applyGeodesicArea ==
  /\ calc.fn = "none"
  /\ calc.ring # <<>>
  /\ calc' = [calc EXCEPT !.fn = "area", !.out = geodesicArea(calc.ring)]
  /\ UNCHANGED programVars

NextCalc ==
  \/ applyConversion
  \/ applyGeodesicArea

SpecCalc == InitCalc /\ [][NextCalc]_vars

(* The mounted points editor before any event.                              *)
InitProgram ==
  /\ editor = "points"
  /\ onAreaUpdate = FALSE
  /\ isDrawing = FALSE
  /\ selectedUnit = "ha"
  /\ unitChanges = 0
  /\ areaSize = ZeroString
  /\ notified = <<>>
  /\ points = <<>>
  /\ undoStack = <<>>
  /\ redoStack = <<>>
  /\ drawnItems = <<>>
  /\ nextStamp = 1
  /\ delivered = 0
  /\ gpsStatus = "inactive"
  /\ locationError = ""
  /\ watchId = 0
  /\ gpsCalls = 0
  /\ pendingPos = {}
  /\ watches = {}
  /\ drawHandler = "null"
  /\ handlerEnabled = FALSE
  /\ threw = FALSE
  /\ trail = "none"
  /\ prePush = <<>>
  /\ postPush = <<>>
  /\ postPoints = <<>>
  /\ clearedAt = 0
  /\ isAnalyzing = FALSE
  /\ showElevationAnalysis = FALSE
  /\ elevationData = NullData
  /\ inFlight = {}
  /\ analysisCalls = 0
  /\ requests = 0
  /\ lastAlert = "none"
  /\ hung = FALSE

(* The sampling grid and the point-in-polygon test as functions.  A point   *)
(* is tested against the ring in units of 1/scale: half units for the test  *)
(* points, and 1/n units for the mean of the n vertices, whose coordinates  *)
(* are then the sums of the vertices'.                                      *)
Resolutions == {2, 20}

TestRings == UNION {[1..n -> Lattice] : n \in 0..MaxRing}

TestPoints == {LatLng(a, b) : a \in -2..2 * MaxLat + 2, b \in -2..4}

RECURSIVE SumOf(_, _)
SumOf(polygon, i) ==
  IF i > Len(polygon) THEN LatLng(0, 0)
  ELSE LET rest == SumOf(polygon, i + 1)
       IN LatLng(polygon[i].lat + rest.lat, polygon[i].lng + rest.lng)

InitGeometry ==
  /\ InitProgram
  /\ \/ \E polygon \in Rings : \E resolution \in Resolutions :
          calc = [fn |-> "none", kind |-> "grid", ring |-> polygon,
                  resolution |-> resolution, returns |-> TRUE, out |-> <<>>]
     \/ \E polygon \in TestRings : \E point \in TestPoints :
          calc = [fn |-> "none", kind |-> "inside", ring |-> polygon,
                  scale |-> 2, point |-> point, out |-> FALSE]
     \/ \E polygon \in TestRings \ {<<>>} :
          calc = [fn |-> "none", kind |-> "inside", ring |-> polygon,
                  scale |-> Len(polygon), point |-> SumOf(polygon, 1),
                  out |-> FALSE]

(* createAnalysisGrid(polygon.getBounds(), polygon, resolution): it returns *)
(* its list, or never returns when a step is 0.                             *)
applyCreateAnalysisGrid ==
  /\ calc.fn = "none"
  /\ calc.kind = "grid"
  /\ calc' = IF \/ getBounds(calc.ring).north = getBounds(calc.ring).south
                \/ getBounds(calc.ring).east = getBounds(calc.ring).west
             THEN [calc EXCEPT !.fn = "grid", !.returns = FALSE]
             ELSE [calc EXCEPT !.fn = "grid",
                     !.out = analysisGridPoints(calc.ring, calc.resolution)]
  /\ UNCHANGED programVars

(* isPointInPolygon(point, polygon).                                        *)
applyIsPointInPolygon ==
  /\ calc.fn = "none"
  /\ calc.kind = "inside"
  /\ calc' = [calc EXCEPT !.fn = "inside",
                 !.out = isPointInPolygon(calc.point,
                                          Scaled(calc.ring, calc.scale))]
  /\ UNCHANGED programVars

NextGeometry ==
  \/ applyCreateAnalysisGrid
  \/ applyIsPointInPolygon

SpecGeometry == InitGeometry /\ [][NextGeometry]_vars

(* getElevationData(points), one step per fetch and per answer.  The m-th   *)
(* point of a list is GridPoint(m): the points of a list differ.            *)
chunkSize == 500

GridPoint(m) == LatLng((m - 1) \div 21, (m - 1) % 21)

Min(a, b) == IF a < b THEN a ELSE b

(* Chunks that take one point more than the step of the loop.               *)
chunksOf_overlapping(list) ==
  [k \in 1..(Len(list) + chunkSize - 1) \div chunkSize |->
     SubSeq(list, (k - 1) * chunkSize + 1,
            Min(k * chunkSize + 1, Len(list)))]

(* chunks: points.slice(i, i + chunkSize) for i = 0, chunkSize, ... while   *)
(* i < points.length.                                                       *)
chunksOf(list) ==
  [k \in 1..(Len(list) + chunkSize - 1) \div chunkSize |->
     SubSeq(list, (k - 1) * chunkSize + 1, Min(k * chunkSize, Len(list)))]

InitBatches ==
  /\ InitProgram
  /\ \E n \in 0..MaxPoints :
       calc = [fn |-> "getElevationData",
               points |-> [m \in 1..n |-> GridPoint(m)],
               next |-> 1, sent |-> <<>>, waiting |-> 0,
               allResults |-> <<>>, ended |-> "no"]

(* await fetch('/api/elevation', ...) with the next chunk as the body.      *)
fetchChunk ==
  /\ calc.fn = "getElevationData"
  /\ calc.ended = "no"
  /\ calc.waiting = 0
  /\ calc.next <= Len(chunksOf(calc.points))
  /\ calc' = [calc EXCEPT !.sent = Append(@, chunksOf(calc.points)[calc.next]),
                          !.waiting = @ + 1]
  /\ UNCHANGED programVars

(* The fetch settles.  "OK": a body with one result for each point of the   *)
(* chunk, which are pushed on allResults.  "500": a body without results,   *)
(* nothing is pushed.  "rejected": fetch or response.json() throws, which   *)
(* ends the function.                                                       *)
chunkAnswered(status) ==
  /\ calc.fn = "getElevationData"
  /\ calc.ended = "no"
  /\ calc.waiting > 0
  /\ calc' = [calc EXCEPT
                !.waiting = @ - 1,
                !.next = IF status = "rejected" THEN @ ELSE @ + 1,
                !.allResults = IF status = "OK"
                               THEN @ \o calc.sent[Len(calc.sent)] ELSE @,
                !.ended = IF status = "rejected" THEN "thrown" ELSE @]
  /\ UNCHANGED programVars

(* The loop is over: the function returns allResults.                       *)
returnResults ==
  /\ calc.fn = "getElevationData"
  /\ calc.ended = "no"
  /\ calc.waiting = 0
  /\ calc.next > Len(chunksOf(calc.points))
  /\ calc' = [calc EXCEPT !.ended = "returned"]
  /\ UNCHANGED programVars

NextBatches ==
  \/ fetchChunk
  \/ \E status \in ResponseStatus : chunkAnswered(status)
  \/ returnResults

SpecBatches == InitBatches /\ [][NextBatches]_vars

(* Colours are strings, kept as their characters.                           *)
HexDigits == <<"0", "1", "2", "3", "4", "5", "6", "7",
               "8", "9", "a", "b", "c", "d", "e", "f">>

(* parseInt(c.slice(k, k + 2), 16) on two hexadecimal characters.           *)
parseInt(chars) ==
  LET valueOf(ch) == CHOOSE d \in 0..15 : HexDigits[d + 1] = ch
  IN 16 * valueOf(chars[1]) + valueOf(chars[2])

(* v.toString(16).padStart(2, '0') for a channel v of 0..255, and for a     *)
(* channel that is NaN, which is kept as -1.                                *)
toString16(v) ==
  IF v < 0 THEN <<"N", "a", "N">>
  ELSE <<HexDigits[(v \div 16) + 1], HexDigits[(v % 16) + 1]>>

(* A ratio is the fraction num/den with den > 0, or NaN, kept as 0/0.       *)
NaN == [num |-> 0, den |-> 0]

(* interpolateColor: the '#' is removed, each channel is parsed, and        *)
(* Math.round(v1 + (v2 - v1) * ratio) is written back in hexadecimal.       *)
(* Math.round is the floor of its argument plus one half, and NaN for NaN.  *)
interpolateColor(color1, color2, ratio) ==
  LET c1 == Tail(color1)
      c2 == Tail(color2)
      channel(k) ==
        LET v1 == parseInt(SubSeq(c1, k, k + 1))
            v2 == parseInt(SubSeq(c2, k, k + 1))
        IN IF ratio = NaN THEN -1
           ELSE (2 * v1 * ratio.den + 2 * (v2 - v1) * ratio.num + ratio.den)
                  \div (2 * ratio.den)
  IN <<"#">> \o toString16(channel(1)) \o toString16(channel(3))
            \o toString16(channel(5))

colors ==
  << <<"#", "2", "b", "8", "3", "b", "a">>,
     <<"#", "a", "b", "d", "d", "a", "4">>,
     <<"#", "f", "f", "f", "f", "b", "f">>,
     <<"#", "f", "d", "a", "e", "6", "1">>,
     <<"#", "d", "7", "1", "9", "1", "c">> >>

(* getElevationColor.  (elevation - min) / (max - min) is 0/0 = NaN when    *)
(* max = min = elevation, and NaN passes through Math.max, Math.min and     *)
(* Math.floor; colors[NaN] is undefined, so the first and the last stop are *)
(* taken.  A division of another number by 0 gives an infinity, which the   *)
(* clamp turns into 0 or 1.                                                 *)
getElevationColor(elevation, min, max) ==
  LET span == Abs(max - min)
      rise == IF max >= min THEN elevation - min ELSE min - elevation
      safeRatio ==
        IF max = min
        THEN IF elevation = min THEN NaN
             ELSE IF elevation > min THEN [num |-> 1, den |-> 1]
                  ELSE [num |-> 0, den |-> 1]
        ELSE IF rise <= 0 THEN [num |-> 0, den |-> 1]
             ELSE IF rise >= span THEN [num |-> 1, den |-> 1]
                  ELSE [num |-> rise, den |-> span]
      index == Min((safeRatio.num * (Len(colors) - 1)) \div safeRatio.den,
                   Len(colors) - 2)
  IN IF safeRatio = NaN
     THEN interpolateColor(colors[1], colors[Len(colors)], NaN)
     ELSE interpolateColor(colors[index + 1], colors[index + 2],
            [num |-> safeRatio.num * (Len(colors) - 1)
                       - index * safeRatio.den,
             den |-> safeRatio.den])

(* Math.min(...elevations) and Math.max(...elevations): of no argument they *)
(* are Infinity and -Infinity, kept as a number beyond every elevation.     *)
Infinity == 1000000

Math_min(elevations) ==
  IF elevations = <<>> THEN Infinity
  ELSE Least({elevations[i] : i \in 1..Len(elevations)})

Math_max(elevations) ==
  IF elevations = <<>> THEN 0 - Infinity
  ELSE Greatest({elevations[i] : i \in 1..Len(elevations)})

(* L.LatLng.distanceTo, of Leaflet: here ten times the planar distance in   *)
(* grid steps, rounded down.  Two different grid points are at least 10     *)
(* apart.                                                                   *)
distanceTo(p, q) ==
  LET square == 100 * ((p.lat - q.lat) * (p.lat - q.lat)
                        + (p.lng - q.lng) * (p.lng - q.lng))
  IN CHOOSE d \in 0..square : d * d <= square /\ (d + 1) * (d + 1) > square

(* Slopes measured between a sample and the next but one grid point.        *)
calculateSlopes_skipping(data, gridPoints) ==
  [i \in 1..Len(data) - 1 |->
     [num |-> Abs(data[i + 1].elevation - data[i].elevation) * 100,
      den |-> distanceTo(gridPoints[i],
                         gridPoints[Min(i + 2, Len(gridPoints))])]]

(* calculateSlopes(elevationData, points): slope i is the fraction          *)
(* |elevation2 - elevation1| * 100 / distance, the distance being taken     *)
(* between the grid points i and i + 1.                                     *)
calculateSlopes(data, gridPoints) ==
  [i \in 1..Len(data) - 1 |->
     [num |-> Abs(data[i + 1].elevation - data[i].elevation) * 100,
      den |-> distanceTo(gridPoints[i], gridPoints[i + 1])]]

(* slopes.reduce((a, b) => a + b, 0) / slopes.length, as a fraction; of no  *)
(* slope it is 0/0.                                                         *)
RECURSIVE SumOfSlopes(_, _)
SumOfSlopes(slopes, i) ==
  IF i > Len(slopes) THEN [num |-> 0, den |-> 1]
  ELSE LET rest == SumOfSlopes(slopes, i + 1)
       IN [num |-> slopes[i].num * rest.den + rest.num * slopes[i].den,
           den |-> slopes[i].den * rest.den]

Average(slopes) ==
  IF slopes = <<>> THEN NaN
  ELSE [num |-> SumOfSlopes(slopes, 1).num,
        den |-> SumOfSlopes(slopes, 1).den * Len(slopes)]

(* The cells of the overlay: one for each sample whose index is below       *)
(* gridPoints.length - 1, with its four corners and its colour.             *)
ElevationCells(data, gridPoints, min, max) ==
  [i \in 1..Min(Len(data), Len(gridPoints) - 1) |->
     [latlngs |-> <<data[i].location,
                    gridPoints[i + 1],
                    gridPoints[Min(i + 21, Len(gridPoints))],
                    gridPoints[Min(i + 20, Len(gridPoints))]>>,
      color |-> getElevationColor(data[i].elevation, min, max)]]

(* Number(x.toFixed(2)) of an elevation.  Elevations are counted in thirds  *)
(* of 0.01 m, so the nearest multiple of 0.01 m is the nearest multiple of  *)
(* 3 and never half way; Infinity and -Infinity are kept.                   *)
Number_toFixed2(x) ==
  IF x = Infinity \/ x = 0 - Infinity THEN x ELSE 3 * ((x + 1) \div 3)

(* Number(avgSlope.toFixed(2)): the nearest multiple of 0.01, as a number   *)
(* of hundredths; NaN is kept.                                              *)
Number_toFixed2_ratio(x) ==
  IF x = NaN THEN NaN
  ELSE [num |-> toFixed(1, [num |-> x.num, den |-> x.den,
                            decimals |-> 2]).digits,
        den |-> 100]

(* The statistics and the overlay of analyzeElevation as a function of the  *)
(* grid points and of the samples getElevationData returned: one sample for *)
(* each grid point at the point's own location, or none when the route      *)
(* answered 500.  The grid points are taken from two rows of the grid.      *)
(* Distances are counted in the unit of the elevations, so that a slope is  *)
(* the percentage the code computes.                                        *)
SamplePositions == {1, 2, 3, 22, 23}

SampleLists ==
  {[i \in 1..Cardinality(S) |->
      GridPoint(CHOOSE k \in S : Cardinality({j \in S : j < k}) = i - 1)] :
   S \in {T \in SUBSET SamplePositions : Cardinality(T) <= MaxSamples}}

NullStatistics == [min |-> 0, max |-> 0, avgSlope |-> NaN]

InitStatistics ==
  /\ InitProgram
  /\ \/ \E gridPoints \in SampleLists :
          \E elevations \in [1..Len(gridPoints) -> 0..MaxElevation] :
            calc = [fn |-> "none", kind |-> "statistics",
                    gridPoints |-> gridPoints,
                    elevationData |->
                      [i \in 1..Len(gridPoints) |->
                         [elevation |-> elevations[i],
                          location |-> gridPoints[i]]],
                    min |-> 0, max |-> 0, slopes |-> <<>>,
                    avgSlope |-> NaN, cells |-> <<>>,
                    published |-> NullStatistics]
     \/ \E gridPoints \in SampleLists :
          calc = [fn |-> "none", kind |-> "statistics",
                  gridPoints |-> gridPoints, elevationData |-> <<>>,
                  min |-> 0, max |-> 0, slopes |-> <<>>,
                  avgSlope |-> NaN, cells |-> <<>>,
                  published |-> NullStatistics]
     \/ \E min \in 0..1, span \in 0..MaxSpan :
          \E elevation \in min..min + span :
            calc = [fn |-> "none", kind |-> "color", elevation |-> elevation,
                    min |-> min, max |-> min + span, out |-> <<>>]

(* analyzeElevation from the statistics to setElevationData.                *)
applyStatistics ==
  /\ calc.fn = "none"
  /\ calc.kind = "statistics"
  /\ LET elevations == [i \in 1..Len(calc.elevationData) |->
                          calc.elevationData[i].elevation]
         min == Math_min(elevations)
         max == Math_max(elevations)
         slopes == calculateSlopes(calc.elevationData, calc.gridPoints)
     IN calc' = [calc EXCEPT
                   !.fn = "statistics",
                   !.min = min,
                   !.max = max,
                   !.slopes = slopes,
                   !.avgSlope = Average(slopes),
                   !.cells = ElevationCells(calc.elevationData,
                                            calc.gridPoints, min, max),
                   !.published =
                     [min |-> Number_toFixed2(min),
                      max |-> Number_toFixed2(max),
                      avgSlope |-> Number_toFixed2_ratio(Average(slopes))]]
  /\ UNCHANGED programVars

(* getElevationColor(elevation, min, max).                                  *)
applyGetElevationColor ==
  /\ calc.fn = "none"
  /\ calc.kind = "color"
  /\ calc' = [calc EXCEPT
                !.fn = "color",
                !.out = getElevationColor(calc.elevation, calc.min, calc.max)]
  /\ UNCHANGED programVars

NextStatistics ==
  \/ applyStatistics
  \/ applyGetElevationColor

SpecStatistics == InitStatistics /\ [][NextStatistics]_vars

----------------------------------------------------------------------------
(* The API route /api/elevation: handler(req, res) as a function of the     *)
(* request and of what the provider does when it is called.                 *)

(* What the route can get back from the provider: the fetch rejects, the    *)
(* body is not JSON, the body is the JSON null, or the body is an object    *)
(* with or without a status and an error_message.                           *)
NoData == [status |-> "undefined", error_message |-> "undefined",
           results |-> <<>>]

Methods == {"GET", "HEAD", "POST", "PUT", "DELETE", "OPTIONS"}

Bodies ==
  {[defined |-> FALSE, hasPoints |-> FALSE, points |-> <<>>],
   [defined |-> TRUE, hasPoints |-> FALSE, points |-> <<>>]}
  \cup {[defined |-> TRUE, hasPoints |-> TRUE, points |-> list] :
        list \in {<<>>, <<GridPoint(1)>>, <<GridPoint(1), GridPoint(2)>>}}

ProviderData ==
  [status : {"OK", "ok", "INVALID_REQUEST", "REQUEST_DENIED", "undefined"},
   error_message : {"undefined", "The provided API key is invalid."},
   results : {<<>>, <<[elevation |-> 1, location |-> GridPoint(1)]>>}]

Upstreams ==
  {[outcome |-> o, data |-> NoData] : o \in {"rejected", "malformed", "null"}}
  \cup {[outcome |-> "json", data |-> d] : d \in ProviderData}

(* A route that answers 200 whenever the provider's body is an object.      *)
handler_anyStatus(req, upstream) ==
  IF req.method # "POST"
  THEN [status |-> 405, message |-> "Method not allowed",
        error |-> "undefined", data |-> NoData, fetched |-> 0]
  ELSE IF ~req.body.defined \/ ~req.body.hasPoints
  THEN [status |-> 500, message |-> "Failed to fetch elevation data",
        error |-> "TypeError", data |-> NoData, fetched |-> 0]
  ELSE IF upstream.outcome = "json"
  THEN [status |-> 200, message |-> "undefined", error |-> "undefined",
        data |-> upstream.data, fetched |-> 1]
  ELSE [status |-> 500, message |-> "Failed to fetch elevation data",
        error |-> upstream.outcome, data |-> NoData, fetched |-> 1]

(* handler(req, res): the status and the body of the answer, and the number *)
(* of calls made to the provider.  Everything thrown between the reading of *)
(* req.body and the answer is caught and answered 500 with the error's      *)
(* message.                                                                 *)
handler(req, upstream) ==
  IF req.method # "POST"
  THEN [status |-> 405, message |-> "Method not allowed",
        error |-> "undefined", data |-> NoData, fetched |-> 0]
  ELSE IF ~req.body.defined \/ ~req.body.hasPoints
  THEN [status |-> 500, message |-> "Failed to fetch elevation data",
        error |-> "TypeError", data |-> NoData, fetched |-> 0]
  ELSE IF upstream.outcome = "rejected"
  THEN [status |-> 500, message |-> "Failed to fetch elevation data",
        error |-> "fetch failed", data |-> NoData, fetched |-> 1]
  ELSE IF upstream.outcome = "malformed"
  THEN [status |-> 500, message |-> "Failed to fetch elevation data",
        error |-> "SyntaxError", data |-> NoData, fetched |-> 1]
  ELSE IF upstream.outcome = "null"
  THEN [status |-> 500, message |-> "Failed to fetch elevation data",
        error |-> "TypeError", data |-> NoData, fetched |-> 1]
  ELSE IF upstream.data.status = "OK"
  THEN [status |-> 200, message |-> "undefined", error |-> "undefined",
        data |-> upstream.data, fetched |-> 1]
  ELSE [status |-> 500, message |-> "Failed to fetch elevation data",
        error |-> IF upstream.data.error_message # "undefined"
                  THEN upstream.data.error_message
                  ELSE "Failed to get elevation data",
        data |-> NoData, fetched |-> 1]

NoAnswer == [status |-> 0, message |-> "undefined", error |-> "undefined",
             data |-> NoData, fetched |-> 0]

InitRoute ==
  /\ InitProgram
  /\ \E method \in Methods, body \in Bodies, upstream \in Upstreams :
       calc = [fn |-> "none", kind |-> "route",
               req |-> [method |-> method, body |-> body],
               upstream |-> upstream, res |-> NoAnswer]

(* One request handled by the route.                                        *)
applyHandler ==
  /\ calc.fn = "none"
  /\ calc.kind = "route"
  /\ calc' = [calc EXCEPT !.fn = "handler",
                          !.res = handler(calc.req, calc.upstream)]
  /\ UNCHANGED programVars

NextRoute == applyHandler

SpecRoute == InitRoute /\ [][NextRoute]_vars

----------------------------------------------------------------------------
(* The place search of the three components: the [searchQuery] effect with  *)
(* its timeout, the Nominatim request it sends and handleResultClick.  A    *)
(* query is the sequence of its characters.                                 *)

MaxQueryChanges == 3

Queries == {<<>>, <<"j">>, <<" ", "j", " ">>, <<"j", "a">>,
            <<"j", "a", " ">>, <<"j", "a", "i">>}

(* String.prototype.trim.                                                   *)
RECURSIVE trimStart(_)
trimStart(s) ==
  IF s # <<>> /\ s[1] = " " THEN trimStart(Tail(s)) ELSE s

RECURSIVE trimEnd(_)
trimEnd(s) ==
  IF s # <<>> /\ s[Len(s)] = " " THEN trimEnd(SubSeq(s, 1, Len(s) - 1)) ELSE s

trim(s) == trimEnd(trimStart(s))

(* The length below which the timeout callback sends nothing: 3 in the      *)
(* first component, 2 in the two editors.                                   *)
Variants == {"first", "editor"}

minLength(variant) == IF variant = "first" THEN 3 ELSE 2

NoTimeout == [armed |-> FALSE, query |-> <<>>]

(* The [searchQuery] effect: the cleanup of the previous run clears its     *)
(* timeout, and the new timeout keeps the query of this render.             *)
searchEffect(query) == [armed |-> TRUE, query |-> query]

(* What Nominatim may do with a request.                                    *)
Outcomes == {"places", "nothing", "rejected"}

(* The places answered for a request; request tells the answers apart.      *)
placesOf(f) == <<[display_name |-> f.query, request |-> f.seq]>>

(* The component after mounting: the effect has run once.                   *)
InitSearch ==
  /\ InitProgram
  /\ \E variant \in Variants :
       calc = [fn |-> "none", kind |-> "search", variant |-> variant,
               searchQuery |-> <<>>, searchResults |-> <<>>,
               isSearching |-> FALSE, searchTimeout |-> searchEffect(<<>>),
               fetches |-> {}, sent |-> 0, changes |-> 0]

(* onChange of the search input.                                            *)
onChange(value) ==
  /\ calc.kind = "search"
  /\ value # calc.searchQuery
  /\ calc.changes < MaxQueryChanges
  /\ calc' = [calc EXCEPT !.fn = "onChange",
                          !.searchQuery = value,
                          !.searchTimeout = searchEffect(value),
                          !.changes = calc.changes + 1]
  /\ UNCHANGED programVars

(* The timeout callback up to its await of fetch.                           *)
searchTimeoutFires ==
  /\ calc.kind = "search"
  /\ calc.searchTimeout.armed
  /\ LET searchQuery == calc.searchTimeout.query
     IN IF Len(trim(searchQuery)) < minLength(calc.variant)
        THEN calc' = [calc EXCEPT !.fn = "timeout",
                                  !.searchTimeout = NoTimeout,
                                  !.searchResults = <<>>]
        ELSE calc' = [calc EXCEPT !.fn = "timeout",
                                  !.searchTimeout = NoTimeout,
                                  !.isSearching = TRUE,
                                  !.sent = calc.sent + 1,
                                  !.fetches = calc.fetches \cup
                                    {[seq |-> calc.sent + 1,
                                      query |-> searchQuery]}]
  /\ UNCHANGED programVars

(* The rest of the timeout callback, from the answer of the request on.     *)
fetchSettles(f, outcome) ==
  /\ calc.kind = "search"
  /\ f \in calc.fetches
  /\ calc' = [calc EXCEPT !.fn = "response",
                          !.fetches = calc.fetches \ {f},
                          !.isSearching = FALSE,
                          !.searchResults =
                             CASE outcome = "places" -> placesOf(f)
                               [] outcome = "nothing" -> <<>>
                               [] outcome = "rejected" -> calc.searchResults]
  /\ UNCHANGED programVars

(* handleResultClick on one of the listed results.  Setting the query to    *)
(* the value it already has does not run the effect again.                  *)
handleResultClick ==
  /\ calc.kind = "search"
  /\ calc.searchResults # <<>>
  /\ calc' = [calc EXCEPT !.fn = "click",
                          !.searchResults = <<>>,
                          !.searchQuery = <<>>,
                          !.searchTimeout =
                             IF calc.searchQuery # <<>>
                             THEN searchEffect(<<>>)
                             ELSE calc.searchTimeout]
  /\ UNCHANGED programVars

NextSearch ==
  \/ \E value \in Queries : onChange(value)
  \/ searchTimeoutFires
  \/ \E f \in calc.fetches : \E outcome \in Outcomes : fetchSettles(f, outcome)
  \/ handleResultClick

SpecSearch == InitSearch /\ [][NextSearch]_vars

----------------------------------------------------------------------------
(* Events, as the claims speak of them.                                     *)
Range(s) == {s[i] : i \in 1..Len(s)}

Front(s) == SubSeq(s, 1, Len(s) - 1)

RECURSIVE Reverse(_)
Reverse(s) == IF s = <<>> THEN <<>> ELSE Append(Reverse(Tail(s)), Head(s))

IsPrefix(s, t) == Len(s) <= Len(t) /\ SubSeq(t, 1, Len(s)) = s

(* What the claims call the drawing: the polygon's vertex sequence in the   *)
(* points editor, the set of drawn layers in the layer editor.              *)
Drawn(items) == IF editor = "points" THEN Ring(items) ELSE Range(items)

ClickOf(p) == handleMapClick(p)
FixOf(p) == \E w \in watches : watchFix(w, p)
StoredFixOf(p) == \E w \in watches : w.isDrawing /\ watchFix(w, p)
DrawCreated == \E ring \in DrawnRings : Map_handleDrawCreated(ring)
UndoEvent == handleUndo \/ Map_handleUndo
RedoEvent == handleRedo \/ Map_handleRedo
ClearEvent == clearAll \/ Map_clearAll
ToggleEvent == toggleDrawing \/ Map_startDrawing

(* C1: any new mutation clears redo.  In both editors, after every event    *)
(* that adds a vertex or a polygon to the drawing (a map click while        *)
(* drawing, a GPS watch fix that is stored while drawing, draw-created) the *)
(* redo stack is empty.                                                     *)
C1_MutationClearsRedo ==
  [][(\/ \E p \in NewLatLngs : isDrawing /\ (ClickOf(p) \/ StoredFixOf(p))
      \/ DrawCreated)
     => redoStack' = <<>>]_vars

(* C2: undo/redo round trip.  Right after an append (or a draw-created) and *)
(* an undo, the polygon's vertex sequence (the set of drawn layers) is what *)
(* it was just before the append; right after the redo that follows, it is  *)
(* what it was just after the append.                                       *)
C2_UndoRedoRoundTrip ==
  /\ trail = "push.undo" => Drawn(drawnItems) = Drawn(prePush)
  /\ trail = "push.undo.redo" => Drawn(drawnItems) = Drawn(postPush)

(* C3: the history is a lossless linear log.  After any sequence of clicks, *)
(* undos and redos in the points editor, the polygon's vertex sequence (the *)
(* points state and the ring drawn from it) is a prefix of the sequence as  *)
(* it stood right after the most recent append, and followed by the redo    *)
(* stack read top-first it is that sequence.                                *)
C3_LosslessLinearLog ==
  /\ Ring(drawnItems) = points
  /\ IsPrefix(points, postPoints)
  /\ points \o Reverse(redoStack) = postPoints

(* C3 case: some vertices are undone and some remain.                       *)
C3_Witness ==
  /\ Len(redoStack) >= 2
  /\ points # <<>>

(* C4: undo pops the top entry of the undo stack and pushes one entry on    *)
(* the redo stack, redo pops the top entry of the redo stack and pushes one *)
(* entry on the undo stack, and neither changes                             *)
(* len(undoStack) + len(redoStack); in both editors.                        *)
C4_UndoRedoMoveEntries ==
  [][/\ (UndoEvent \/ RedoEvent) =>
          Len(undoStack') + Len(redoStack') = Len(undoStack) + Len(redoStack)
     /\ (UndoEvent /\ undoStack # <<>>) =>
          /\ undoStack' = Front(undoStack)
          /\ Len(redoStack') = Len(redoStack) + 1
     /\ (RedoEvent /\ redoStack # <<>>) =>
          /\ redoStack' = Front(redoStack)
          /\ Len(undoStack') = Len(undoStack) + 1]_vars

(* C5: clearing resets the polygon and wipes the history.  After Clear All  *)
(* there is no polygon and both stacks are empty, and in the points editor  *)
(* no vertex delivered before the last Clear All is a vertex of the polygon *)
(* after any later event.                                                   *)
C5_ClearResets ==
  [][/\ ClearEvent =>
          /\ drawnItems' = <<>>
          /\ undoStack' = <<>>
          /\ redoStack' = <<>>
     /\ editor = "points" =>
          Range(Ring(drawnItems')) \cap {Vertex(n) : n \in 1..clearedAt'} = {}
    ]_vars

(* C6: while drawing, every map click and every GPS watch fix appends its   *)
(* vertex at the end of the polygon's vertex sequence and records one entry *)
(* for it on the undo stack.                                                *)
C6_AppendRecordsAdd ==
  [][\A p \in NewLatLngs :
       (isDrawing /\ (ClickOf(p) \/ FixOf(p))) =>
          /\ Ring(drawnItems') = Append(Ring(drawnItems), p)
          /\ undoStack' = Append(undoStack, p)]_vars

(* C7: clicks and GPS fixes are applied in receipt order and none is merged *)
(* or dropped.  When only clicks and fixes have been delivered, the polygon *)
(* holds every vertex stored so far exactly once, in the order received.    *)
C7_ReceiptOrder ==
  Ring(drawnItems) = [n \in 1..delivered |-> Vertex(n)]

(* C8: leaving drawing freezes the polygon against appends.  A map click or *)
(* a GPS fix that arrives while the drawing mode is off changes neither the *)
(* polygon's vertices nor either stack.                                     *)
C8_IdleFreezesPolygon ==
  [][\A p \in NewLatLngs :
       (~isDrawing /\ (ClickOf(p) \/ FixOf(p))) =>
          UNCHANGED <<points, drawnItems, undoStack, redoStack>>]_vars

(* C9: the drawing mode is a two-state toggle.  Each toggle flips the mode  *)
(* and changes neither the polygon's vertex sequence nor the undo or redo   *)
(* stack, in both editors.                                                  *)
C9_ToggleFlipsModeOnly ==
  [][ToggleEvent =>
       /\ isDrawing' = ~isDrawing
       /\ UNCHANGED <<points, drawnItems, undoStack, redoStack>>]_vars

(* C9 case: drawing was switched on, a polygon and a history were built,    *)
(* and drawing was switched off again.                                      *)
C9_Witness ==
  /\ ~isDrawing
  /\ drawnItems # <<>>
  /\ undoStack # <<>>
  /\ redoStack # <<>>

(* C10: undo with an empty undo stack and redo with an empty redo stack are *)
(* no-ops: neither changes the polygon, either stack or the displayed area, *)
(* in every reachable state.                                                *)
C10_EmptyUndoRedoNoOp ==
  [][/\ (UndoEvent /\ undoStack = <<>>) =>
          UNCHANGED <<points, drawnItems, undoStack, redoStack, areaSize>>
     /\ (RedoEvent /\ redoStack = <<>>) =>
          UNCHANGED <<points, drawnItems, undoStack, redoStack, areaSize>>]_vars

(* C11: a polygon with fewer than 3 vertices has area exactly 0 and raises  *)
(* no error.  After any sequence of clicks, undos, redos and Clear All that *)
(* leaves 0, 1 or 2 vertices, the displayed area is 0 and no handler threw. *)
C11_DegenerateAreaIsZero ==
  Len(Ring(drawnItems)) < 3 => (areaSize.digits = 0 /\ ~threw)

(* C11 case: a polygon of 3 vertices was measured and an undo left 2.       *)
C11_Witness ==
  /\ Len(Ring(drawnItems)) = 2
  /\ Len(points) = 2
  /\ redoStack # <<>>
  /\ areaSize = [digits |-> 0, decimals |-> 2]

(* C12: every polygon mutation triggers area recomputation.  After each     *)
(* stored click, stored GPS fix, undo, redo, Clear All and draw-created,    *)
(* the displayed area is the geodesic area of the polygon converted with    *)
(* the selected unit's factor and formatted with its decimals (a zero area  *)
(* may be shown with any number of decimals).                               *)
AreaOf(items) ==
  IF editor = "points" THEN geodesicArea(Ring(items))
  ELSE totalAreaInSqMeters(items)

C12_AreaFollowsMutation ==
  [][(\/ \E p \in NewLatLngs : (isDrawing /\ ClickOf(p)) \/ StoredFixOf(p)
      \/ UndoEvent \/ RedoEvent \/ ClearEvent \/ DrawCreated)
     => LET shown == toFixed(AreaOf(drawnItems'),
                             UNIT_CONVERSIONS[selectedUnit'])
        IN \/ areaSize' = shown
           \/ (areaSize'.digits = 0 /\ shown.digits = 0)]_vars

(* C13: unit conversion follows the fixed table.  For every area and unit   *)
(* the displayed value has the unit's decimals (2 for ha and acre, 0 for    *)
(* sqm and sqft) and is the multiple of 10^-decimals nearest to area times  *)
(* the factor 1/10000, 1, 1/4046.86 or 1/0.092903.                          *)
ClaimedTable ==
  [ha   |-> [num |-> 1,       den |-> 10000,  decimals |-> 2],
   sqm  |-> [num |-> 1,       den |-> 1,      decimals |-> 0],
   acre |-> [num |-> 100,     den |-> 404686, decimals |-> 2],
   sqft |-> [num |-> 1000000, den |-> 92903,  decimals |-> 0]]

C13_ConversionTable ==
  calc.fn = "convert" =>
    LET row == ClaimedTable[calc.unit]
    IN /\ calc.out.decimals = row.decimals
       /\ 2 * Abs(calc.out.digits * row.den
                  - calc.area * Pow10(row.decimals) * row.num) <= row.den

(* C13 case: an area converted to acres that does not show as zero.         *)
C13_Witness ==
  /\ calc.fn = "convert"
  /\ calc.unit = "acre"
  /\ calc.area = MaxArea
  /\ calc.out.digits > 0

(* C14: unit conversion round-trips.  In each row of the table toSqMeters   *)
(* is the reciprocal of fromSqMeters, and for every area and unit the       *)
(* displayed value converted back with toSqMeters is within half a unit of  *)
(* the last displayed decimal of the area.                                  *)
C14_ConversionRoundTrip ==
  /\ \A unit \in Units :
       /\ UNIT_CONVERSIONS[unit].toNum = UNIT_CONVERSIONS[unit].den
       /\ UNIT_CONVERSIONS[unit].toDen = UNIT_CONVERSIONS[unit].num
  /\ calc.fn = "convert" =>
       LET row == UNIT_CONVERSIONS[calc.unit]
       IN 2 * Abs(calc.out.digits * row.toNum
                  - calc.area * Pow10(row.decimals) * row.toDen) <= row.toNum

(* C14 case: an area converted to square feet and back.                     *)
C14_Witness ==
  /\ calc.fn = "convert"
  /\ calc.unit = "sqft"
  /\ calc.out.digits > calc.area

(* C15: the computed area is orientation-independent.  For every ring of at *)
(* least 3 vertices the area is the same for every cyclic rotation of the   *)
(* ring and for its reversal, and it is never negative.                     *)
RotateBy(s, k) == [i \in 1..Len(s) |-> s[((i + k - 1) % Len(s)) + 1]]

C15_OrientationIndependent ==
  calc.fn = "area" =>
    /\ calc.out >= 0
    /\ \A k \in 1..Len(calc.ring) :
         geodesicArea(RotateBy(calc.ring, k)) = calc.out
    /\ geodesicArea(Reverse(calc.ring)) = calc.out

(* C15 case: a ring that encloses area and whose signed sum is negative.    *)
C15_Witness ==
  /\ calc.fn = "area"
  /\ calc.out > 0
  /\ EdgeSum(calc.ring, 1) < 0

(* The steps of an analysis: the call up to its await, and its resumption.  *)
AnalysisStep ==
  analyzeElevation \/ \E a \in inFlight, st \in ResponseStatus :
                         elevationResponse(a, st)

TopLayer(items) == IF items = <<>> THEN <<>> ELSE <<items[Len(items)]>>

BottomLayer(items) == IF items = <<>> THEN <<>> ELSE <<items[1]>>

(* C16: elevation analysis requires a polygon.  A call of analyzeElevation  *)
(* with no layer, or with a polygon of 0, 1 or 2 vertices, raises an error  *)
(* alert, issues no elevation request, publishes no statistics, opens no    *)
(* panel, returns, and leaves the polygon and the history as they were.     *)
C16_AnalysisRequiresPolygon ==
  [][(/\ analyzeElevation
      /\ \/ drawnItems = <<>>
         \/ /\ drawnItems[Len(drawnItems)].kind = "polygon"
            /\ Len(drawnItems[Len(drawnItems)].latlngs) < 3)
     => /\ lastAlert' # "none"
        /\ ~hung'
        /\ requests' = requests
        /\ elevationData' = elevationData
        /\ showElevationAnalysis' = showElevationAnalysis
        /\ UNCHANGED <<points, drawnItems, undoStack, redoStack>>]_vars

(* C17: a failed elevation batch surfaces as an analysis failure.  When the *)
(* route answers 500, the analysis raises the failure alert, publishes no   *)
(* statistics, opens no panel, draws no cell and leaves the polygon as it   *)
(* was.                                                                     *)
C17_FailedBatchFails ==
  [][(\E a \in inFlight : elevationResponse(a, "500"))
     => /\ lastAlert' = "Failed to analyze elevation"
        /\ elevationData' = elevationData
        /\ showElevationAnalysis' = showElevationAnalysis
        /\ drawnItems' = drawnItems]_vars

(* C18: the analysis never touches the active polygon.  Across every step   *)
(* of an analysis the vertex list, both stacks and the displayed area are   *)
(* unchanged, and so are the layer that clicks, Undo and Redo redraw (the   *)
(* first of the group) and the layer that a unit change and the next        *)
(* analysis read (the last of the group).                                   *)
C18_AnalysisLeavesPolygon ==
  [][AnalysisStep
     => /\ UNCHANGED <<points, undoStack, redoStack, areaSize>>
        /\ BottomLayer(drawnItems') = BottomLayer(drawnItems)
        /\ TopLayer(drawnItems') = TopLayer(drawnItems)]_vars

(* C19: dismissing the result panel cancels the analysis in flight.  When   *)
(* the panel is closed and a call older than the one whose statistics were  *)
(* published is still awaiting its answer (so it was in flight when the     *)
(* panel was dismissed), its answer publishes nothing, draws nothing and    *)
(* does not reopen the panel.                                               *)
C19_DismissCancels ==
  [][(\E a \in inFlight, st \in ResponseStatus :
        /\ ~showElevationAnalysis
        /\ elevationData # NullData
        /\ a.call < elevationData.call
        /\ elevationResponse(a, st))
     => /\ ~showElevationAnalysis'
        /\ elevationData' = elevationData
        /\ drawnItems' = drawnItems
        /\ requests' = requests]_vars

(* C20: every analysis samples and queries the field polygon.  Whenever the *)
(* group holds a drawn polygon that the sampling grid covers, a call of     *)
(* analyzeElevation, the first or a later one, issues an elevation request  *)
(* for the samples of a layer of kind polygon.                              *)
C20_AnalysisSamplesField ==
  [][(/\ analyzeElevation
      /\ \E i \in 1..Len(drawnItems) :
           /\ drawnItems[i].kind = "polygon"
           /\ createAnalysisGrid(drawnItems[i].latlngs) = "samples")
     => /\ requests' = requests + 1
        /\ \E a \in inFlight' \ inFlight :
             \E i \in 1..Len(drawnItems) :
               /\ drawnItems[i].id = a.sampled
               /\ drawnItems[i].kind = "polygon"]_vars

(* C21: the analysis grid is an N x N lattice spanning the bounding box.    *)
(* When createAnalysisGrid returns for resolution N, its loops visit        *)
(* exactly N x N candidate points, all within the bounding box of the       *)
(* polygon, and the list returned holds exactly the candidates for which    *)
(* isPointInPolygon is true, in the order of the loops.                     *)
C21_GridIsNByN ==
  (calc.fn = "grid" /\ calc.returns) =>
    LET N == calc.resolution
        bounds == getBounds(calc.ring)
        candidates == GridCandidates(bounds, N)
        inPolygon(point) == isPointInPolygon(point, Scaled(calc.ring, N))
    IN /\ Len(candidates) = N * N
       /\ \A m \in 1..Len(candidates) :
            /\ candidates[m].lat >= bounds.south * N
            /\ candidates[m].lat <= bounds.north * N
            /\ candidates[m].lng >= bounds.west * N
            /\ candidates[m].lng <= bounds.east * N
       /\ calc.out = SelectSeq(candidates, inPolygon)

(* C23: isPointInPolygon is the even-odd ray-casting test.  It is true for  *)
(* the mean of the vertices of every convex polygon of at least 3 vertices  *)
(* no three of which are in line, false for every point outside the         *)
(* bounding box of the ring, and false for every point when the ring has    *)
(* fewer than 3 vertices.                                                   *)
Turn(polygon, i) ==
  LET n == Len(polygon)
      a == polygon[i]
      b == polygon[(i % n) + 1]
      c == polygon[((i + 1) % n) + 1]
  IN (b.lat - a.lat) * (c.lng - b.lng) - (b.lng - a.lng) * (c.lat - b.lat)

IsConvex(polygon) ==
  /\ Len(polygon) >= 3
  /\ \/ \A i \in 1..Len(polygon) : Turn(polygon, i) > 0
     \/ \A i \in 1..Len(polygon) : Turn(polygon, i) < 0

OutsideBounds(point, polygon) ==
  LET bounds == getBounds(polygon)
  IN \/ point.lat < bounds.south
     \/ point.lat > bounds.north
     \/ point.lng < bounds.west
     \/ point.lng > bounds.east

C23_EvenOddRayCasting ==
  calc.fn = "inside" =>
    LET polygon == Scaled(calc.ring, calc.scale)
    IN /\ (/\ IsConvex(calc.ring)
           /\ calc.scale = Len(calc.ring)
           /\ calc.point = SumOf(calc.ring, 1)) => calc.out
       /\ (polygon # <<>> /\ OutsideBounds(calc.point, polygon)) => ~calc.out
       /\ Len(polygon) < 3 => ~calc.out

(* C23 case: the mean of the vertices of a convex quadrilateral was tested. *)
C23_Witness ==
  /\ calc.fn = "inside"
  /\ Len(calc.ring) = 4
  /\ IsConvex(calc.ring)
  /\ calc.scale = 4
  /\ calc.point = SumOf(calc.ring, 1)
  /\ calc.out

(* C24: isPointInPolygon treats the ring as closed.  For every point and    *)
(* ring the result is the same when a copy of the first vertex is appended  *)
(* as the last, for every cyclic rotation of the ring and for its reversal. *)
C24_RingImplicitlyClosed ==
  calc.fn = "inside" =>
    LET polygon == Scaled(calc.ring, calc.scale)
    IN /\ polygon # <<>> =>
            isPointInPolygon(calc.point, Append(polygon, polygon[1])) = calc.out
       /\ \A k \in 1..Len(polygon) :
            isPointInPolygon(calc.point, RotateBy(polygon, k)) = calc.out
       /\ isPointInPolygon(calc.point, Reverse(polygon)) = calc.out

(* C24 case: a point inside a ring of 4 vertices whose last vertex differs  *)
(* from its first.                                                          *)
C24_Witness ==
  /\ calc.fn = "inside"
  /\ Len(calc.ring) = 4
  /\ calc.ring[4] # calc.ring[1]
  /\ calc.out

(* C22: elevation requests are batched under the cap and preserve order.    *)
(* Each request carries at least 1 and at most 500 points; the requests     *)
(* issued so far, concatenated in issue order, are the beginning of the     *)
(* list of points, and the whole list when the function returns; at most    *)
(* one request is awaited at any time.                                      *)
RECURSIVE Flatten(_)
Flatten(lists) ==
  IF lists = <<>> THEN <<>> ELSE Head(lists) \o Flatten(Tail(lists))

C22_BatchesCappedInOrder ==
  calc.fn = "getElevationData" =>
    /\ \A k \in 1..Len(calc.sent) :
         Len(calc.sent[k]) >= 1 /\ Len(calc.sent[k]) <= 500
    /\ IsPrefix(Flatten(calc.sent), calc.points)
    /\ calc.ended = "returned" => Flatten(calc.sent) = calc.points
    /\ calc.waiting <= 1

(* C22 case: a list that needed three requests was sent and the function    *)
(* returned.                                                                *)
C22_Witness ==
  /\ calc.fn = "getElevationData"
  /\ calc.ended = "returned"
  /\ Len(calc.sent) = 3
  /\ Len(calc.sent[3]) = 1

(* C25: slope is computed between index-adjacent samples in lattice order.  *)
(* For n >= 1 returned samples there are exactly n - 1 slopes; slope i is   *)
(* |elevation(i+1) - elevation(i)| / distance x 100, the distance being     *)
(* that between the locations of the samples i and i + 1; and the published *)
(* avgSlope is the sum of the slopes divided by their number.               *)
ClaimedSlopes(data) ==
  [i \in 1..Len(data) - 1 |->
     [num |-> Abs(data[i + 1].elevation - data[i].elevation) * 100,
      den |-> distanceTo(data[i].location, data[i + 1].location)]]

SameFraction(a, b) == a.den # 0 /\ b.den # 0 /\ a.num * b.den = b.num * a.den

ClaimedMean(data) ==
  [num |-> SumOfSlopes(ClaimedSlopes(data), 1).num,
   den |-> SumOfSlopes(ClaimedSlopes(data), 1).den * (Len(data) - 1)]

C25_SlopesOfAdjacentSamples ==
  (calc.fn = "statistics" /\ calc.elevationData # <<>>) =>
    LET n == Len(calc.elevationData)
        claimed == ClaimedSlopes(calc.elevationData)
    IN /\ Len(calc.slopes) = n - 1
       /\ \A i \in 1..n - 1 : SameFraction(calc.slopes[i], claimed[i])
       /\ n >= 2 =>
            SameFraction(calc.published.avgSlope,
                         ClaimedMean(calc.elevationData))

(* C25 as amended: the same, the published avgSlope being the arithmetic    *)
(* mean of the slopes rounded to two decimals, that is a multiple of 0.01   *)
(* at most 0.005 away from the mean.                                        *)
C25_SlopesOfAdjacentSamplesRounded ==
  (calc.fn = "statistics" /\ calc.elevationData # <<>>) =>
    LET n == Len(calc.elevationData)
        claimed == ClaimedSlopes(calc.elevationData)
        mean == ClaimedMean(calc.elevationData)
        published == calc.published.avgSlope
    IN /\ Len(calc.slopes) = n - 1
       /\ \A i \in 1..n - 1 : SameFraction(calc.slopes[i], claimed[i])
       /\ n >= 2 =>
            /\ published.den = 100
            /\ 2 * Abs(published.num * mean.den - 100 * mean.num)
                 <= mean.den

(* C25 case: three samples in two rows of the grid with different           *)
(* elevations.                                                              *)
C25_Witness ==
  /\ calc.fn = "statistics"
  /\ Len(calc.elevationData) = 3
  /\ calc.gridPoints[3].lat # calc.gridPoints[2].lat
  /\ Len(calc.slopes) = 2
  /\ calc.slopes[1].num > 0
  /\ calc.slopes[2].num > calc.slopes[1].num
  /\ ~SameFraction(calc.published.avgSlope, calc.avgSlope)

(* C26: published min and max are the minimum and maximum elevation of the  *)
(* returned samples.  In every published result min <= max, every sample's  *)
(* elevation lies between them, and each of them is the elevation of some   *)
(* returned sample.                                                         *)
C26_MinMaxOfSamples ==
  calc.fn = "statistics" =>
    LET data == calc.elevationData
        min == calc.published.min
        max == calc.published.max
    IN /\ min <= max
       /\ \A i \in 1..Len(data) :
            min <= data[i].elevation /\ data[i].elevation <= max
       /\ \E i \in 1..Len(data) : data[i].elevation = min
       /\ \E i \in 1..Len(data) : data[i].elevation = max

(* C27: the colour is interpolated linearly between the two nearest of the  *)
(* five stops.  For min <= e <= max, getElevationColor(e, min, max) is a    *)
(* valid #rrggbb colour; when min < max each channel lies between those of  *)
(* the stops k and k + 1, k being floor(4 (e - min) / (max - min)) capped   *)
(* at 3, e = min gives #2b83ba, e = max gives #d7191c, and a ratio of k/4   *)
(* gives stop k; when min = max the colour is still a valid #rrggbb colour. *)
IsColor(text) ==
  /\ Len(text) = 7
  /\ text[1] = "#"
  /\ \A k \in 2..7 : \E d \in 1..16 : HexDigits[d] = text[k]

Between(x, a, b) == (a <= x /\ x <= b) \/ (b <= x /\ x <= a)

C27_ColorInterpolation ==
  calc.fn = "color" =>
    LET span == calc.max - calc.min
        rise == calc.elevation - calc.min
    IN /\ IsColor(calc.out)
       /\ span > 0 =>
            LET k == Min((4 * rise) \div span, 3)
            IN /\ \A c \in {2, 4, 6} :
                    Between(parseInt(SubSeq(calc.out, c, c + 1)),
                            parseInt(SubSeq(colors[k + 1], c, c + 1)),
                            parseInt(SubSeq(colors[k + 2], c, c + 1)))
               /\ rise = 0 => calc.out = colors[1]
               /\ rise = span => calc.out = colors[5]
               /\ (4 * rise) % span = 0 =>
                    calc.out = colors[((4 * rise) \div span) + 1]

(* C28: the analysis output carries a colour per sample.  When samples were *)
(* returned, every sample has exactly one cell: there are as many cells as  *)
(* samples, and cell i is anchored at the location of sample i and coloured *)
(* from its elevation.                                                      *)
C28_CellPerSample ==
  (calc.fn = "statistics" /\ calc.elevationData # <<>>) =>
    LET data == calc.elevationData
    IN /\ Len(calc.cells) = Len(data)
       /\ \A i \in 1..Len(calc.cells) :
            /\ calc.cells[i].latlngs[1] = data[i].location
            /\ calc.cells[i].color =
                 getElevationColor(data[i].elevation, calc.min, calc.max)

(* C30: the elevation API route answers 405 to every request that is not a  *)
(* POST, without calling the provider; it answers 200 with the provider's   *)
(* data if and only if the provider was called and its status is OK; and it *)
(* answers 500 in every other case: a status that is not OK, a body that is *)
(* malformed, a fetch that fails.                                           *)
ProviderSaidOK ==
  /\ calc.req.method = "POST"
  /\ calc.res.fetched = 1
  /\ calc.upstream.outcome = "json"
  /\ calc.upstream.data.status = "OK"

C30_RouteStatus ==
  calc.fn = "handler" =>
    /\ calc.req.method # "POST" =>
         calc.res.status = 405 /\ calc.res.fetched = 0
    /\ calc.res.status = 200 <=> ProviderSaidOK
    /\ calc.res.status = 200 => calc.res.data = calc.upstream.data
    /\ (calc.req.method = "POST" /\ ~ProviderSaidOK) => calc.res.status = 500
    /\ calc.res.fetched <= 1

(* C30 case: a POST whose provider answers a status that is not OK, with an *)
(* error message, is answered 500 with that message.                        *)
C30_Witness ==
  /\ calc.fn = "handler"
  /\ calc.req.method = "POST"
  /\ calc.upstream.outcome = "json"
  /\ calc.upstream.data.status = "REQUEST_DENIED"
  /\ calc.res.status = 500
  /\ calc.res.error = calc.upstream.data.error_message
  /\ calc.res.fetched = 1

(* C29: a GPS failure is surfaced and the editor keeps working.  At every   *)
(* step in which getCurrentPosition or a position watch reports an error    *)
(* the failure is reported to the user, by the alert of the points editor   *)
(* or by the message and the error status of the layer editor, and the      *)
(* vertices and both history stacks are unchanged; and a map click made     *)
(* while drawing after such an error still appends its vertex.              *)
GpsErrorStep ==
  \/ \E req \in pendingPos : positionError(req) \/ Map_locateError(req)
  \/ \E w \in watches : watchError(w) \/ Map_watchError(w)

GpsErrorReported ==
  IF editor = "points"
  THEN lastAlert' = GpsAlert
  ELSE /\ gpsStatus' = "error"
       /\ \E code \in ErrorCodes : locationError' = errorMessage(code)

AfterGpsError ==
  \/ lastAlert = GpsAlert
  \/ gpsStatus = "error"
  \/ \E w \in watches : w.erred

C29_GpsFailureSurfaced ==
  [][/\ GpsErrorStep =>
          /\ GpsErrorReported
          /\ UNCHANGED <<points, drawnItems, undoStack, redoStack>>
     /\ \A p \in NewLatLngs :
          (AfterGpsError /\ isDrawing /\ ClickOf(p)) =>
            /\ points' = Append(points, p)
            /\ drawnItems' # <<>>
            /\ drawnItems'[1].latlngs[Len(drawnItems'[1].latlngs)] = p]_vars

(* C31: changing the measurement unit shows the area in the newly selected  *)
(* unit.  Right after the user selects unit u with a polygon drawn, the     *)
(* displayed area is the polygon's area converted with u's factor and       *)
(* formatted to u's decimals; and selecting a unit when no polygon exists   *)
(* leaves the display at 0 and raises no error.                             *)
SelectEvent(u) == selectUnit(u) \/ Map_selectUnit(u)

HasPolygon(items) == \E i \in 1..Len(items) : items[i].kind = "polygon"

C31_UnitChangeShowsNewUnit ==
  [][\A u \in Units :
       SelectEvent(u) =>
         IF HasPolygon(drawnItems)
         THEN areaSize' = toFixed(AreaOf(drawnItems), UNIT_CONVERSIONS[u])
         ELSE areaSize'.digits = 0 /\ ~threw']_vars

(* C32: in the points editor the rendered polygon and the points state      *)
(* never diverge.  In every reachable state, when a polygon layer exists    *)
(* its vertex ring is the points sequence, and when no polygon layer exists *)
(* points is empty.                                                         *)
C32_PolygonMatchesPoints ==
  editor = "points" =>
    IF HasPolygon(drawnItems)
    THEN Ring(drawnItems) = points
    ELSE points = <<>>

(* C33: grid generation terminates.  For every polygon that passes the      *)
(* guard of analyzeElevation (the group has a layer), also one whose        *)
(* bounding box has no height or no width, the call does not stay in the    *)
(* loops of createAnalysisGrid: it either waits for the elevation answer or *)
(* has gone through its finally block, which leaves isAnalyzing false.      *)
C33_GridTerminates ==
  [][(analyzeElevation /\ drawnItems # <<>>)
     => /\ ~hung'
        /\ \/ \E a \in inFlight' : a.call = analysisCalls'
           \/ ~isAnalyzing']_vars

(* C34: GPS watch lifecycle in the points editor.  Under any interleaving   *)
(* of toggleGPS clicks, position callbacks and error callbacks, at most one *)
(* position watch is registered at a time, and whenever gpsStatus is        *)
(* 'inactive' no watch is registered, so that no fix can change the polygon *)
(* while GPS is shown as off.                                               *)
C34_WatchLifecycle ==
  editor = "points" =>
    /\ Cardinality(watches) <= 1
    /\ gpsStatus = "inactive" => watches = {}

(* C35: in the layer editor the history stays consistent with the drawn     *)
(* layers.  In every reachable state every layer recorded in the undo stack *)
(* is in the drawn-items group and every layer in the redo stack is not; in *)
(* particular a GPS fix removes no drawn polygon.                           *)
C35_HistoryMatchesLayers ==
  editor = "layer" =>
    /\ \A i \in 1..Len(undoStack) :
         undoStack[i].layer.id \in LayerIds(drawnItems)
    /\ \A i \in 1..Len(redoStack) :
         redoStack[i].layer.id \notin LayerIds(drawnItems)

(* C36: the parent is notified of every area change.  With the onAreaUpdate *)
(* prop supplied, every step that recomputes or resets the area (a click    *)
(* that reshapes the polygon, draw-created, an undo or redo that has        *)
(* something to act on, a unit change, Clear All) calls the prop exactly    *)
(* once, with the area of the drawing as it is after the step in the unit   *)
(* selected after the step, and the handler raises no error.                *)
AreaEvent ==
  \/ \E p \in NewLatLngs : isDrawing /\ drawnItems # <<>> /\ ClickOf(p)
  \/ DrawCreated
  \/ (IF editor = "points" THEN points # <<>> /\ drawnItems # <<>>
      ELSE undoStack # <<>>) /\ UndoEvent
  \/ (redoStack # <<>> /\ (editor = "points" => drawnItems # <<>>))
       /\ RedoEvent
  \/ \E u \in Units : SelectEvent(u)
  \/ ClearEvent

C36_AreaCallbackNotified ==
  [][(onAreaUpdate /\ AreaEvent)
     => /\ notified' = <<[area |-> AreaOf(drawnItems'),
                          unit |-> selectedUnit']>>
        /\ ~threw']_vars

(* C37: isAnalyzing reflects whether an analysis is in progress.  In every  *)
(* reachable state of the points editor in which the page runs, isAnalyzing *)
(* is true exactly when at least one call of analyzeElevation has started   *)
(* and not yet finished, overlapping calls included.                        *)
C37_AnalyzingWhileInFlight ==
  (editor = "points" /\ ~hung) => (isAnalyzing <=> inFlight # {})

(* C38: the debounced search shows results for the latest query only.  A    *)
(* request is sent only for the query the input still holds when the        *)
(* timeout runs; a query whose trimmed length is below the minimum sends no *)
(* request and clears the results; and the answer to a request never        *)
(* replaces listed results of a later request, and never lists results      *)
(* again once the query has been cleared and the list emptied.              *)
SentNow == calc'.fetches \ calc.fetches

TooShort ==
  Len(trim(calc.searchTimeout.query)) < minLength(calc.variant)

NewerListed(f) ==
  calc.searchResults # <<>> /\ calc.searchResults[1].request > f.seq

Cleared == calc.searchQuery = <<>> /\ calc.searchResults = <<>>

C38_LatestQueryOnly ==
  [][/\ \A f \in SentNow : f.query = calc.searchQuery
     /\ (searchTimeoutFires /\ TooShort)
          => SentNow = {} /\ calc'.searchResults = <<>>
     /\ \A f \in calc.fetches : \A outcome \in Outcomes :
          (fetchSettles(f, outcome) /\ (NewerListed(f) \/ Cleared))
            => calc'.searchResults = calc.searchResults]_vars

(* C39: in the layer editor updateAreaSize displays the total area of the   *)
(* drawn polygons.  After every draw-created, undo and redo the displayed   *)
(* value is the sum of the areas of all polygons in the drawn-items group,  *)
(* converted with the selected unit's factor and formatted with its         *)
(* decimals, and it is 0 when the group holds no polygon.                   *)
RECURSIVE SumOfPolygonAreas(_)
SumOfPolygonAreas(items) ==
  IF items = <<>> THEN 0
  ELSE (IF items[1].kind = "polygon" THEN geodesicArea(items[1].latlngs)
        ELSE 0)
       + SumOfPolygonAreas(Tail(items))

C39_TotalAreaOfPolygons ==
  [][(editor = "layer" /\ (DrawCreated \/ (undoStack # <<>> /\ UndoEvent)
                           \/ (redoStack # <<>> /\ RedoEvent)))
     => IF HasPolygon(drawnItems')
        THEN areaSize' = toFixed(SumOfPolygonAreas(drawnItems'),
                                 UNIT_CONVERSIONS[selectedUnit'])
        ELSE areaSize'.digits = 0]_vars

====
